---- MODULE Spec2Model ----
(***************************************************************************)
(* Model of general/convertS57.py: the extraction of S-57 (ENC) feature    *)
(* layers into per-chart shapefiles and one composite shapefile per        *)
(* (feature type, geometry type) combination.                              *)
(*                                                                         *)
(* Data values are modelled as records [k, v]: k is the Python type of the *)
(* value ("null" for None, "int", "str", "ilist", "slist"), v its content. *)
(* Text is a sequence of one-character strings, so that str() and          *)
(* ",".join() are computed character by character.  Names of layers,       *)
(* fields and files are identifiers and stay TLA+ strings.                 *)
(*                                                                         *)
(* Field types are OGR's Integer, String, IntegerList and StringList: the  *)
(* S-57 driver emits no other list type, and Real/Date fields take no part *)
(* in any retyping.  DBF limits (field width, name length) belong to the   *)
(* shapefile driver and are not modelled: a shapefile holds what was set.  *)
(*                                                                         *)
(* A run is given by the charts under the parent folder, by the two        *)
(* settings the user edits in the script (extractAlls57FeaturesInData,     *)
(* featureTypeList) and by what the drivers refuse.  The script does not   *)
(* choose between error codes and exceptions (no ogr.UseExceptions()), so  *)
(* a refused call either returns a code that is not looked at or raises:   *)
(* both are followed.  The shapefile driver does not create a data source  *)
(* over a file that exists.                                                *)
(*                                                                         *)
(* general/aerialPhotographyWarp.py (SpecWarp) and                         *)
(* general/imageSearchAndSpatialCatalogue.py (SpecImages) are modelled in  *)
(* the second half of the module, each with variables of its own; in the   *)
(* behaviours of one script the variables of the two others stay idle.     *)
(***************************************************************************)
EXTENDS Integers, Sequences, FiniteSets, TLC

(***************************************************************************)
(* Bounds of the model.                                                    *)
(***************************************************************************)
MaxCharts == 3

MaxFeats == 2

MaxFields == 2

MaxListLen == 2

(***************************************************************************)
(* Generic helpers.                                                        *)
(***************************************************************************)
Range(s) == {s[i] : i \in 1..Len(s)}

SeqsUpTo(S, n) == UNION {[1..m -> S] : m \in 0..n}

InjSeqs(S, lo, hi) ==
    {s \in UNION {[1..m -> S] : m \in lo..hi} :
        \A i, j \in 1..Len(s) : i # j => s[i] # s[j]}

IsPrefix(p, q) == Len(p) <= Len(q) /\ SubSeq(q, 1, Len(p)) = p

(***************************************************************************)
(* Python values and conversions.                                          *)
(***************************************************************************)
None == [k |-> "null", v |-> 0]

PyInt(n) == [k |-> "int", v |-> n]

PyStr(s) == [k |-> "str", v |-> s]

PyIntList(l) == [k |-> "ilist", v |-> l]

PyStrList(l) == [k |-> "slist", v |-> l]

DigitChars == <<"0", "1", "2", "3", "4", "5", "6", "7", "8", "9">>

RECURSIVE NatToText(_)
NatToText(n) ==
    IF n < 10 THEN <<DigitChars[n + 1]>>
    ELSE NatToText(n \div 10) \o <<DigitChars[(n % 10) + 1]>>

\* str(x) of Python, for the values the script passes to it.
str(x) ==
    CASE x.k = "int"  -> IF x.v < 0 THEN <<"-">> \o NatToText(-x.v) ELSE NatToText(x.v)
      [] x.k = "str"  -> x.v
      [] x.k = "null" -> <<"N", "o", "n", "e">>

\* Mutant: the separator also follows the last part.
RECURSIVE joinTrailing(_, _)
joinTrailing(sep, parts) ==
    IF Len(parts) = 0 THEN <<>>
    ELSE parts[1] \o sep \o joinTrailing(sep, Tail(parts))

\* sep.join(parts) of Python: the parts in order, sep between neighbours.
RECURSIVE join(_, _)
join(sep, parts) ==
    IF Len(parts) = 0 THEN <<>>
    ELSE IF Len(parts) = 1 THEN parts[1]
    ELSE join(sep, SubSeq(parts, 1, Len(parts) - 1)) \o sep \o parts[Len(parts)]

\* [str(i) for i in value] for a list value of either list type.
StrEach(value) ==
    [i \in 1..Len(value.v) |->
        IF value.k = "ilist" THEN str(PyInt(value.v[i])) ELSE str(PyStr(value.v[i]))]

(***************************************************************************)
(* OGR behaviour the script relies on.                                     *)
(***************************************************************************)
IsDigit(c) == \E i \in 1..10 : DigitChars[i] = c

DigitVal(c) == (CHOOSE i \in 1..10 : DigitChars[i] = c) - 1

RECURSIVE LeadingNat(_, _)
LeadingNat(s, acc) ==
    IF Len(s) = 0 \/ ~IsDigit(s[1]) THEN acc
    ELSE LeadingNat(Tail(s), acc * 10 + DigitVal(s[1]))

\* Text set into an Integer field: the leading decimal number, 0 if none.
atoi(s) ==
    IF Len(s) > 0 /\ s[1] = "-" THEN 0 - LeadingNat(Tail(s), 0)
    ELSE LeadingNat(s, 0)

\* Feature.SetField(field, value): None nulls the field, any other value is
\* converted to the declared type of the field.
SetFieldValue(ftype, value) ==
    CASE value.k = "null" -> None
      [] value.k = "int" /\ ftype = "Integer" -> value
      [] value.k = "int" /\ ftype = "String" -> PyStr(str(value))
      [] value.k = "str" /\ ftype = "String" -> value
      [] value.k = "str" /\ ftype = "Integer" -> PyInt(atoi(value.v))
      [] OTHER -> None

\* FeatureDefn.GetFieldIndex(name): position of the first field of that
\* name (1-based here), 0 for OGR's -1.
GetFieldIndex(schema, name) ==
    IF \E i \in 1..Len(schema) : schema[i].name = name
    THEN CHOOSE i \in 1..Len(schema) :
            /\ schema[i].name = name
            /\ \A j \in 1..(i - 1) : schema[j].name # name
    ELSE 0

\* ogr.FieldDefn(name, type)
FieldDefn(name, type) == [name |-> name, type |-> type]

\* Layer.AlterFieldDefn(i, fld_defn, ALTER_TYPE_FLAG): only the type changes.
AlterFieldDefn(schema, i, fld_defn) ==
    [schema EXCEPT ![i] = [@ EXCEPT !.type = fld_defn.type]]

\* DataSource.GetLayerByName(name): the layer, or NoLayer for None.
NoLayer == [name |-> "", schema |-> <<>>, crs |-> "", feats |-> <<>>]

GetLayerByName(data, name) ==
    IF \E i \in 1..Len(data.layers) : data.layers[i].name = name
    THEN data.layers[CHOOSE i \in 1..Len(data.layers) :
                        /\ data.layers[i].name = name
                        /\ \A j \in 1..(i - 1) : data.layers[j].name # name]
    ELSE NoLayer

\* A feature without geometry has geometry() None.
NoGeom == "NONE"

(***************************************************************************)
(* Program constants.                                                      *)
(***************************************************************************)
\* featureTypeList as shipped (line 186): the geometry types tried for every
\* feature type.  The list is edited in place by the user of the script.
featureTypeListAsShipped == <<"MULTIPOINT", "POLYGON", "POINT", "LINESTRING">>

\* An edited featureTypeList with a token the dispatch does not know, after
\* a known one and before any other.
featureTypeListEdited == {<<"POINT", "CURVE", "POLYGON">>, <<"CURVE", "POINT">>}

\* The manual featureToExtractList (line 177), used when
\* extractAlls57FeaturesInData is set to False.
featureToExtractListManual == <<"SOUNDG", "LNDARE", "LNDELV">>

\* strFields / intFields: the metadata fields added to every staging layer.
strFields == <<"ENCSource", "ENCissDate", "ENCComment">>

intFields == <<"ENCScale">>

\* metaDict: staging field -> key of the dictionary of getENCMetadata.
metaDict ==
    <<[k |-> "ENCSource", v |-> "name"], [k |-> "ENCissDate", v |-> "issueDate"],
      [k |-> "ENCComment", v |-> "comment"], [k |-> "ENCScale", v |-> "scale"]>>

\* proj.ImportFromEPSG(4326): the spatial reference of every composite.
CompositeCRS == "EPSG:4326"

(***************************************************************************)
(* Inputs: the charts found under the parent folder.  A chart is           *)
(* [dir, name, layers]; a layer is [name, schema, crs, feats]; a feature   *)
(* is [geom, xy, vals]: the name of its geometry type, the coordinates of  *)
(* the geometry, and the values aligned to the schema of its layer.        *)
(***************************************************************************)
ListTypes == {"IntegerList", "StringList"}

FieldTypes == {"Integer", "String"} \cup ListTypes

GeomPool == {"POINT", "POLYGON", "MULTIPOINT", NoGeom}

BaseValue(type) ==
    CASE type = "Integer"     -> PyInt(7)
      [] type = "String"      -> PyStr(<<"x">>)
      [] type = "IntegerList" -> PyIntList(<<1, 12>>)
      [] type = "StringList"  -> PyStrList(<< <<"a">>, <<"b", "c">> >>)

ListValues(type) ==
    {None} \cup
    (IF type = "IntegerList"
     THEN {PyIntList(l) : l \in SeqsUpTo({3, 12}, MaxListLen)}
     ELSE {PyStrList(l) : l \in SeqsUpTo({<<"a">>, <<"b", "c">>}, MaxListLen)})

BaseSchema == <<FieldDefn("RCID", "Integer"), FieldDefn("NATSUR", "StringList")>>

\* A feature with its geometry at the given coordinates; no coordinates
\* where there is no geometry.
FeatAt(geom, xy, vals) ==
    [geom |-> geom, xy |-> IF geom = NoGeom THEN <<>> ELSE xy, vals |-> vals]

Feat(geom, vals) == FeatAt(geom, <<0, 0>>, vals)

\* A layer declaring the given spatial reference (layer.GetSpatialRef()).
LayerIn(crs, name, schema, feats) ==
    [name |-> name, schema |-> schema, crs |-> crs, feats |-> feats]

Layer(name, schema, feats) == LayerIn("WGS84", name, schema, feats)

\* The dataset identification layer: one record without geometry.
DsidFieldNames == <<"DSID_EDTN", "DSID_DSNM", "DSID_ISDT", "DSID_COMT", "DSPM_CSCL">>

RecA ==
    [DSID_EDTN |-> PyStr(<<"2">>), DSID_DSNM |-> PyStr(<<"A", "U", "1">>),
     DSID_ISDT |-> PyStr(<<"2", "0", "2", "3">>), DSID_COMT |-> PyStr(<<"t">>),
     DSPM_CSCL |-> PyInt(75000)]

RecB ==
    [DSID_EDTN |-> PyStr(<<"5">>), DSID_DSNM |-> PyStr(<<"G", "B", "2">>),
     DSID_ISDT |-> PyStr(<<"1", "9", "9", "9">>), DSID_COMT |-> PyStr(<<>>),
     DSPM_CSCL |-> PyInt(25)]

DsidLayer(present, rec) ==
    LET names == SelectSeq(DsidFieldNames, LAMBDA n : n \in present)
    IN  Layer("DSID",
              [i \in 1..Len(names) |->
                  FieldDefn(names[i], IF names[i] = "DSPM_CSCL" THEN "Integer" ELSE "String")],
              <<Feat(NoGeom, [i \in 1..Len(names) |-> rec[names[i]]])>>)

FullDsid(rec) == DsidLayer(Range(DsidFieldNames), rec)

Chart(dir, name, layers) == [dir |-> dir, name |-> name, layers |-> layers]

\* One chart, one layer of up to MaxFeats features of any geometry, with and
\* without a list value.
SeqCharts ==
    {Chart("d1", "AU1.000", <<Layer("LNDARE", BaseSchema, fs), FullDsid(RecA)>>) :
        fs \in SeqsUpTo({Feat(g, <<PyInt(7), v>>) :
                            g \in GeomPool, v \in {None, BaseValue("StringList")}},
                        MaxFeats)}

\* One chart, one feature, one list field holding any list value.
ValCharts ==
    UNION {{Chart("d1", "AU1.000",
                  <<FullDsid(RecA),
                    Layer("SOUNDG", <<FieldDefn("QUASOU", t)>>, <<Feat("MULTIPOINT", <<v>>)>>)>>) :
               v \in ListValues(t)} : t \in ListTypes}

\* One chart whose layer has any schema of up to MaxFields fields.
FieldPool ==
    {FieldDefn("RCID", "Integer")}
    \cup {FieldDefn("STATUS", t) : t \in FieldTypes}
    \cup {FieldDefn("NATSUR", t) : t \in {"String", "IntegerList", "StringList"}}

SchemaPool ==
    {s \in SeqsUpTo(FieldPool, MaxFields) :
        \A i, j \in 1..Len(s) : i # j => s[i].name # s[j].name}

SchemaCharts ==
    {Chart("d1", "AU1.000",
           <<Layer("LNDARE", s,
                   <<Feat("POLYGON", [i \in 1..Len(s) |-> BaseValue(s[i].type)]),
                     Feat("POINT", [i \in 1..Len(s) |-> None])>>),
             FullDsid(RecB)>>) :
        s \in SchemaPool}

\* One chart with any identification layer, or none.
DsidCharts ==
    {Chart("d1", "AU1.000", <<Layer("LNDARE", BaseSchema, <<Feat("POINT", <<PyInt(7), None>>)>>)>>)}
    \cup
    {Chart("d1", "AU1.000",
           <<DsidLayer(present, rec),
             Layer("LNDARE", BaseSchema, <<Feat("POINT", <<PyInt(7), None>>)>>)>>) :
        present \in SUBSET Range(DsidFieldNames), rec \in {RecA, RecB}}

\* Several charts: with matching features, with the layer but no matching
\* feature, without the layer, with a partial and without an identification
\* layer.
ChartA ==
    Chart("d1", "AU1.000",
          <<FullDsid(RecA),
            Layer("LNDARE", BaseSchema,
                  <<FeatAt("POINT", <<151, -33>>, <<PyInt(1), BaseValue("StringList")>>),
                    FeatAt("POINT", <<152, -34>>, <<PyInt(2), None>>)>>)>>)

ChartB ==
    Chart("d1", "AU2.000",
          <<FullDsid(RecB),
            LayerIn("EPSG:32756", "LNDARE", BaseSchema,
                    <<FeatAt("POLYGON", <<334, 6250>>, <<PyInt(3), None>>)>>)>>)

ChartC == Chart("d2", "AU3.000", <<FullDsid(RecB)>>)

ChartD ==
    Chart("d2", "AU4.000",
          <<DsidLayer({"DSID_DSNM", "DSPM_CSCL"}, RecB),
            Layer("LNDARE", BaseSchema,
                  <<FeatAt("POLYGON", <<115, -32>>, <<PyInt(4), None>>),
                    FeatAt("POINT", <<116, -31>>, <<PyInt(5), BaseValue("StringList")>>)>>)>>)

ChartE ==
    Chart("d3", "AU5.000",
          <<Layer("LNDARE", BaseSchema, <<Feat("POLYGON", <<PyInt(6), None>>)>>)>>)

SmallPool == {ChartA, ChartB, ChartC, ChartD, ChartE}

MultiWorlds == InjSeqs(SmallPool, 2, MaxCharts)

\* Two charts out of: charts of the same file name in different folders
\* (ChartA, ChartF), and charts whose layers of the same name differ in
\* their schema (ChartG against the others).
ChartF ==
    Chart("d2", "AU1.000",
          <<FullDsid(RecB),
            Layer("LNDARE", BaseSchema,
                  <<FeatAt("POINT", <<153, -35>>, <<PyInt(8), None>>)>>)>>)

ChartG ==
    Chart("d3", "AU6.000",
          <<FullDsid(RecA),
            Layer("LNDARE",
                  <<FieldDefn("NATSUR", "StringList"), FieldDefn("RCID", "Integer")>>,
                  <<FeatAt("POINT", <<154, -36>>, <<BaseValue("StringList"), PyInt(9)>>)>>)>>)

PairPool == {ChartA, ChartB, ChartF, ChartG}

PairWorlds == InjSeqs(PairPool, 2, 2)

\* What the shapefile or memory driver refuses: the CreateFeature calls made
\* for the chart file of that name, while its features are transferred to
\* the staging layer (line 611) or written to its shapefile (line 674).
NoRejection == [name |-> "", at |-> ""]

Rejections(world) ==
    {[name |-> world[i].name, at |-> a] : i \in 1..Len(world), a \in {"transfer", "write"}}

EditedWorlds == InjSeqs({ChartA, ChartB}, 2, 2)

ManualWorlds == {<<>>, <<ChartA, ChartB>>}

RejectWorlds == InjSeqs({ChartA, ChartD}, 2, 2)

\* chartGetter(parentFolder): the .000 files found by the walk.
Worlds ==
    {<<>>} \cup {<<c>> : c \in SeqCharts \cup ValCharts \cup SchemaCharts \cup DsidCharts}
    \cup MultiWorlds \cup PairWorlds

\* One run of the script: the charts under the parent folder, the two
\* settings the user edits (lines 164, 186) and what the drivers refuse.
Run(charts, types, all, rejects) ==
    [charts |-> charts, types |-> types, all |-> all, rejects |-> rejects]

Runs ==
    {Run(w, featureTypeListAsShipped, TRUE, NoRejection) : w \in Worlds}
    \cup {Run(w, t, TRUE, NoRejection) : w \in EditedWorlds, t \in featureTypeListEdited}
    \cup {Run(w, featureTypeListAsShipped, FALSE, NoRejection) : w \in ManualWorlds}
    \cup UNION {{Run(w, featureTypeListAsShipped, TRUE, r) : r \in Rejections(w)} :
                  w \in RejectWorlds}

(***************************************************************************)
(* Pure functions of the script.                                           *)
(***************************************************************************)
RECURSIVE Dedupe(_, _)
Dedupe(names, acc) ==
    IF Len(names) = 0 THEN acc
    ELSE Dedupe(Tail(names),
                IF names[1] \in Range(acc) THEN acc ELSE Append(acc, names[1]))

RECURSIVE LayerNames(_)
LayerNames(charts) ==
    IF Len(charts) = 0 THEN <<>>
    ELSE [i \in 1..Len(charts[1].layers) |-> charts[1].layers[i].name]
         \o LayerNames(Tail(charts))

\* featureTypeGetter(encList): the layer names of all charts, each once, in
\* the order in which they are first met.
featureTypeGetter(charts) == Dedupe(LayerNames(charts), <<>>)

\* The geometry type constant chosen for a featureType token.
GeomTypeOf(token) ==
    CASE token = "LINESTRING" -> "wkbLineString"
      [] token = "POLYGON"    -> "wkbPolygon"
      [] token = "POINT"      -> "wkbPoint25D"
      [] token = "MULTIPOINT" -> "wkbMultiPoint25D"
      [] OTHER                -> "unhandled"

\* Mutant: the geometry test never reports a difference.
GeometryDiffersNever(feat, token) == FALSE

\* feat.geometry().GetGeometryName() != featureType, for a geometry that exists.
GeometryDiffers(feat, token) == feat.geom # token

\* The count pass: features of the requested geometry type; a feature without
\* geometry raises inside the try and is skipped.
CountMatching(layer, token) ==
    Cardinality({i \in 1..Len(layer.feats) :
                    layer.feats[i].geom # NoGeom /\ ~GeometryDiffers(layer.feats[i], token)})

NoneGeometries(layer) ==
    Cardinality({i \in 1..Len(layer.feats) : layer.feats[i].geom = NoGeom})

\* getENCMetadata(data) for a chart that has a DSID layer: every record and
\* every field of it in turn, a named field overwriting the default.
DefaultMeta ==
    [name |-> PyStr(<<>>), issueDate |-> PyStr(<<>>), scale |-> PyInt(0), comment |-> PyStr(<<>>)]

\* Mutant: comment and issue date are taken from each other's field.
RECURSIVE MetaFromFieldsSwapped(_, _, _, _)
MetaFromFieldsSwapped(schema, vals, i, d) ==
    IF i > Len(schema) THEN d
    ELSE MetaFromFieldsSwapped(schema, vals, i + 1,
            CASE schema[i].name = "DSPM_CSCL" -> [d EXCEPT !.scale = vals[i]]
              [] schema[i].name = "DSID_DSNM" -> [d EXCEPT !.name = vals[i]]
              [] schema[i].name = "DSID_COMT" -> [d EXCEPT !.issueDate = vals[i]]
              [] schema[i].name = "DSID_ISDT" -> [d EXCEPT !.comment = vals[i]]
              [] OTHER -> d)

RECURSIVE MetaFromFields(_, _, _, _)
MetaFromFields(schema, vals, i, d) ==
    IF i > Len(schema) THEN d
    ELSE MetaFromFields(schema, vals, i + 1,
            CASE schema[i].name = "DSPM_CSCL" -> [d EXCEPT !.scale = vals[i]]
              [] schema[i].name = "DSID_DSNM" -> [d EXCEPT !.name = vals[i]]
              [] schema[i].name = "DSID_COMT" -> [d EXCEPT !.comment = vals[i]]
              [] schema[i].name = "DSID_ISDT" -> [d EXCEPT !.issueDate = vals[i]]
              [] OTHER -> d)

RECURSIVE MetaFromFeatures(_, _, _)
MetaFromFeatures(layer, j, d) ==
    IF j > Len(layer.feats) THEN d
    ELSE MetaFromFeatures(layer, j + 1,
                          MetaFromFields(layer.schema, layer.feats[j].vals, 1, d))

getENCMetadata(data) == MetaFromFeatures(GetLayerByName(data, "DSID"), 1, DefaultMeta)

(***************************************************************************)
(* The staging (in-memory) layer.                                          *)
(***************************************************************************)
NoMemLayer == [name |-> "", schema |-> <<>>, crs |-> "", feats |-> <<>>, calls |-> <<>>]

NoFeature == [geom |-> NoGeom, xy |-> <<>>, vals |-> <<>>]

\* ogr.Feature(defn): no geometry, every field unset.
NewFeature(schema) ==
    [geom |-> NoGeom, xy |-> <<>>, vals |-> [i \in 1..Len(schema) |-> None]]

\* Mutant: no list type is retyped before loading.
IsRetypedNever(type) == FALSE

\* Mutants: only one of the two list types is retyped before loading.
IsRetypedStringListOnly(type) == type = "StringList"

IsRetypedIntegerListOnly(type) == type = "IntegerList"

\* The declared type is one the script retypes before loading.
IsRetypedListType(type) == type \in {"StringList", "IntegerList"}

\* 'List' in str(fieldType)
IsListTypeName(type) == type \in {"StringList", "IntegerList"}

\* Retype to String, in a layer ml, the fields named in names, one
\* AlterFieldDefn call each.
RECURSIVE AlterToString(_, _)
AlterToString(ml, names) ==
    IF Len(names) = 0 THEN ml
    ELSE AlterToString(
            [ml EXCEPT !.schema = AlterFieldDefn(@, GetFieldIndex(@, names[1]),
                                                 FieldDefn(names[1], "String")),
                       !.calls = Append(@, "AlterFieldDefn")],
            Tail(names))

\* The fields of a schema that the loop over memLayer.schema retypes.
ListFieldNames(schema) ==
    LET listed == SelectSeq(schema, LAMBDA f : IsRetypedListType(f.type))
    IN  [i \in 1..Len(listed) |-> listed[i].name]

\* for attribute in ['STATUS']: retyped only where the field exists.
StatusFieldNames(schema) ==
    IF GetFieldIndex(schema, "STATUS") # 0 THEN <<"STATUS">> ELSE <<>>

RECURSIVE CreateFieldsOfType(_, _, _)
CreateFieldsOfType(ml, names, type) ==
    IF Len(names) = 0 THEN ml
    ELSE CreateFieldsOfType(
            [ml EXCEPT !.schema = Append(@, FieldDefn(names[1], type)),
                       !.calls = Append(@, "CreateField")],
            Tail(names), type)

\* The staging layer of a chart for a source layer, ready to be loaded:
\* CreateLayer, CreateFields(layer.schema), list fields and STATUS retyped
\* to String, the four metadata fields added.
StagingLayer(f, layer) ==
    LET created == [name |-> f, schema |-> layer.schema, crs |-> layer.crs,
                    feats |-> <<>>, calls |-> <<"CreateFields">>]
        lists   == AlterToString(created, ListFieldNames(created.schema))
        status  == AlterToString(lists, StatusFieldNames(lists.schema))
        strs    == CreateFieldsOfType(status, strFields, "String")
    IN  CreateFieldsOfType(strs, intFields, "Integer")

\* Mutant: setting None leaves the field of the feature object as it was.
SetFieldKeepsOnNone(schema, feat, i, value) ==
    IF i \in 1..Len(schema) /\ value # None
    THEN [feat EXCEPT !.vals[i] = SetFieldValue(schema[i].type, value)]
    ELSE feat

\* mem_feat.SetField(i, value) by index; an index outside the schema sets nothing.
SetField(schema, feat, i, value) ==
    IF i \in 1..Len(schema)
    THEN [feat EXCEPT !.vals[i] = SetFieldValue(schema[i].type, value)]
    ELSE feat

\* The loop over the fields of one source feature: state is the feature
\* object under construction and AttributesOfListType.
RECURSIVE TransferFields(_, _, _, _, _)
TransferFields(layer, feature, memSchema, i, st) ==
    IF i > Len(layer.schema) THEN st
    ELSE
      LET fieldName == layer.schema[i].name
          fieldType == layer.schema[i].type
          value     == feature.vals[i]
          m         == GetFieldIndex(memSchema, fieldName)
          attrs     == IF fieldName \in Range(st.attrs) THEN st.attrs
                       ELSE Append(st.attrs, fieldName)
      IN  TransferFields(layer, feature, memSchema, i + 1,
            IF fieldName \in Range(strFields) \cup Range(intFields) \/ m = 0 THEN st
            ELSE IF IsListTypeName(fieldType)
                 THEN [feat  |-> SetField(memSchema, st.feat, m,
                                     IF value # None
                                     THEN PyStr(join(<<",">>, StrEach(value)))
                                     ELSE value),
                       attrs |-> attrs]
                 ELSE [st EXCEPT !.feat = SetField(memSchema, st.feat, m, value)])

\* The loop over metaDict: every metadata field set to str() of its value.
RECURSIVE TransferMeta(_, _, _, _)
TransferMeta(memSchema, meta, k, feat) ==
    IF k > Len(metaDict) THEN feat
    ELSE TransferMeta(memSchema, meta, k + 1,
            SetField(memSchema, feat, GetFieldIndex(memSchema, metaDict[k].k),
                     PyStr(str(meta[metaDict[k].v]))))

\* Mutant: the geometry is reprojected on its way into the other layer.
CopyByIndexReprojected(dst, feats) ==
    [n \in 1..Len(feats) |->
        [geom |-> feats[n].geom,
         xy   |-> [c \in 1..Len(feats[n].xy) |-> feats[n].xy[c] * 2],
         vals |-> [i \in 1..Len(dst) |->
                     IF i <= Len(feats[n].vals)
                     THEN SetFieldValue(dst[i].type, feats[n].vals[i])
                     ELSE None]]]

\* Copy of the features of one layer into a layer of schema dst: the geometry
\* as it is (SetGeometry of the geometry or of its clone), the values field
\* by field index (shp_feat.SetField(i, value) / out_feat.SetField(i, value)).
CopyByIndex(dst, feats) ==
    [n \in 1..Len(feats) |->
        [geom |-> feats[n].geom,
         xy   |-> feats[n].xy,
         vals |-> [i \in 1..Len(dst) |->
                     IF i <= Len(feats[n].vals)
                     THEN SetFieldValue(dst[i].type, feats[n].vals[i])
                     ELSE None]]]

\* Lines 668-672: every value of one staged feature set on shp_feat, by
\* field index.
RECURSIVE SetFieldsByIndex(_, _, _, _)
SetFieldsByIndex(schema, feat, vals, i) ==
    IF i > Len(vals) THEN feat
    ELSE SetFieldsByIndex(schema, SetField(schema, feat, i, vals[i]), vals, i + 1)

\* Lines 658-674: the features of the staging layer copied into the chart
\* shapefile through the one feature object shp_feat, which keeps what the
\* feature before left in it until it is set again.
RECURSIVE CopyReusing(_, _, _)
CopyReusing(dst, feats, shp_feat) ==
    IF Len(feats) = 0 THEN <<>>
    ELSE LET set == SetFieldsByIndex(dst,
                        [shp_feat EXCEPT !.geom = feats[1].geom, !.xy = feats[1].xy],
                        feats[1].vals, 1)
         IN  <<set>> \o CopyReusing(dst, Tail(feats), set)

(***************************************************************************)
(* Output folders and files.  A path is the sequence of its components     *)
(* below the extract root.                                                 *)
(***************************************************************************)
Prefixes(path) == {SubSeq(path, 1, n) : n \in 1..Len(path)}

\* os.makedirs(path): the folder and every missing parent.
makedirs(folders, path) == folders \cup Prefixes(path)

\* shutil.rmtree(path): the folder and everything below it.
rmtreeFolders(folders, path) == {d \in folders : ~IsPrefix(path, d)}

rmtreeFiles(fileMap, path) ==
    [p \in {q \in DOMAIN fileMap : ~IsPrefix(path, q)} |-> fileMap[p]]

(***************************************************************************)
(* State of the script.                                                    *)
(***************************************************************************)
VARIABLES
    encList,                \* the charts found by chartGetter
    extractAlls57FeaturesInData,    \* the setting of line 164
    featureToExtractList,   \* the feature types found by featureTypeGetter
    featureTypeList,        \* the geometry types of line 186
    driverRejects,          \* the CreateFeature calls the drivers refuse
    fIdx, gIdx,             \* positions of the two outer loops
    cIdx,                   \* position of the loop over encList
    jIdx,                   \* position of the loop over the source features
    sIdx,                   \* position of the loop over chartShapefileList
    aIdx,                   \* position of the loop over the features of a shapefile
    synced,                 \* features of the composite that SyncToDisk has written
    pc,                     \* position in the script
    exc,                    \* the uncaught exception that ended the run, if any
    chartList, chartsNoFeatureList, chartsWithFeatureList,
    chartShapefileList, failS57SourceList,
    AttributesOfListType, importFeatureCount, noneTypeGeometry,
    memLayersUsed,
    ENCmetaDict,            \* result of getENCMetadata for the current chart
    memLayer,               \* the staging layer created last
    mem_feat,               \* the feature object reused for every staged feature
    folders,                \* folders below the extract root
    files,                  \* shapefiles below the extract root: path -> layer
    out                     \* what was printed and logged, in order

\* State of aerialPhotographyWarp.py (a separate script with its own run).
VARIABLES
    tree,                   \* files below parentFolder: <<folder, name>> -> raster
    walkTodo,               \* folders os.walk has still to list, in order
    walkRoot,               \* `root`: the folder being listed
    walkFiles,              \* `files`: names of that folder not yet looked at
    geotifList,             \* paths of the rasters that were warped
    opened,                 \* paths passed to gdal.Open at line 132, in order
    warpLog,                \* the records written to the log file
    wpc                     \* position in the script

warpVars == <<tree, walkTodo, walkRoot, walkFiles, geotifList, opened, warpLog, wpc>>

\* State of imageSearchAndSpatialCatalogue.py (a separate script with its
\* own run).
VARIABLES
    disk,                   \* folders and rasters below the parent folders
    answers,                \* what the user will type at the first prompt
    parentFolderInput,      \* the last answer to the first prompt
    parentFolderList,
    hashCalc, continueProcess,
    processedList,          \* paths read from the existing mosaic dataset
    pIdx,                   \* position of the loop over parentFolderList
    processed,              \* the dictionary of line 239: path -> outcome
    rasterCatalog,          \* the rows of the mosaic dataset in use
    rootChecked,
    catTodo,                \* folders os.walk has still to list, in order
    calls,                  \* folders findRaster is still to be called on
    rasters,                \* rasters findRaster has still to look at
    workspace,              \* `path` of the running findRaster call
    searched,               \* the folders findRaster was called on, in order
    cpc,                    \* position in the script
    exitMessage             \* what sys.exit printed, if it was called

catVars ==
    <<disk, answers, parentFolderInput, parentFolderList, hashCalc, continueProcess,
      processedList, pIdx, processed, rasterCatalog, rootChecked, catTodo, calls,
      rasters, workspace, searched, cpc, exitMessage>>

\* The state of the other scripts, which convertS57.py never touches.
otherVars == <<warpVars, catVars>>

convertVars ==
    <<encList, extractAlls57FeaturesInData, featureToExtractList, featureTypeList,
      driverRejects, fIdx, gIdx, cIdx, jIdx, sIdx, aIdx, synced, pc, exc,
      chartList, chartsNoFeatureList, chartsWithFeatureList, chartShapefileList,
      failS57SourceList, AttributesOfListType, importFeatureCount,
      noneTypeGeometry, memLayersUsed, ENCmetaDict, memLayer, mem_feat,
      folders, files, out>>

vars == <<convertVars, otherVars>>

inputVars ==
    <<encList, extractAlls57FeaturesInData, featureToExtractList, featureTypeList,
      driverRejects>>

listVars ==
    <<chartList, chartsNoFeatureList, chartsWithFeatureList, chartShapefileList,
      failS57SourceList>>

stagingVars == <<ENCmetaDict, memLayer, mem_feat>>

fsVars == <<folders, files>>

featureToExtract == featureToExtractList[fIdx]

featureType == featureTypeList[gIdx]

outFolder == <<featureToExtract, featureType>>

chartExtractFolder == Append(outFolder, "ENCsContaining" \o featureType)

globalShp ==
    Append(outFolder, "global_" \o featureToExtract \o "_" \o featureType \o ".shp")

\* The chart of the current iteration, its path, file name and layer.
data == encList[cIdx]

chartPath == <<data.dir, data.name>>

layer == GetLayerByName(data, featureToExtract)

outSHP == Append(chartExtractFolder, data.name \o ".shp")

Event(kind, found, with, without) ==
    [kind |-> kind, feature |-> featureToExtract, type |-> featureType,
     found |-> found, with |-> with, without |-> without]

\* The driver refuses the CreateFeature calls of the current chart at this stage.
Rejects(stage) == driverRejects.name = data.name /\ driverRejects.at = stage

\* The status the interpreter ends with: 0 at the end of the script, 1 after
\* sys.exit(message) and after an uncaught exception.
ExitStatus == IF pc = "done" THEN 0 ELSE 1

\* aerialPhotographyWarp.py is not running.
WarpIdle ==
    /\ tree = <<>>
    /\ walkTodo = <<>>
    /\ walkRoot = <<>>
    /\ walkFiles = {}
    /\ geotifList = <<>>
    /\ opened = <<>>
    /\ warpLog = <<>>
    /\ wpc = "idle"

\* imageSearchAndSpatialCatalogue.py is not running.
CatalogueIdle ==
    /\ disk = [folders |-> {}, rasters |-> {}]
    /\ answers = <<>>
    /\ parentFolderInput = <<>>
    /\ parentFolderList = <<>>
    /\ hashCalc = FALSE
    /\ continueProcess = ""
    /\ processedList = <<>>
    /\ pIdx = 1
    /\ processed = <<>>
    /\ rasterCatalog = <<>>
    /\ rootChecked = FALSE
    /\ catTodo = <<>>
    /\ calls = <<>>
    /\ rasters = <<>>
    /\ workspace = <<>>
    /\ searched = <<>>
    /\ cpc = "idle"
    /\ exitMessage = ""

Init ==
    /\ \E run \in Runs :
          /\ encList = run.charts
          /\ extractAlls57FeaturesInData = run.all
          /\ featureToExtractList =
                IF run.all THEN featureTypeGetter(run.charts) ELSE featureToExtractListManual
          /\ featureTypeList = run.types
          /\ driverRejects = run.rejects
    /\ fIdx = 1
    /\ gIdx = 1
    /\ cIdx = 1
    /\ jIdx = 1
    /\ sIdx = 1
    /\ aIdx = 1
    /\ synced = 0
    /\ pc = IF Len(featureToExtractList) = 0 THEN "final" ELSE "combination"
    /\ exc = "none"
    /\ chartList = <<>>
    /\ chartsNoFeatureList = <<>>
    /\ chartsWithFeatureList = <<>>
    /\ chartShapefileList = <<>>
    /\ failS57SourceList = <<>>
    /\ AttributesOfListType = <<>>
    /\ importFeatureCount = 0
    /\ noneTypeGeometry = <<>>
    /\ memLayersUsed = FALSE
    /\ ENCmetaDict = DefaultMeta
    /\ memLayer = NoMemLayer
    /\ mem_feat = NoFeature
    /\ folders = {}
    /\ files = <<>>
    /\ out = <<>>
    /\ WarpIdle
    /\ CatalogueIdle

\* Mutant: the end of a combination ends both loops.
NextCombinationStops ==
    /\ UNCHANGED <<fIdx, gIdx>>
    /\ pc' = "final"

\* The end of one pass of the loop over featureTypeList (also `continue`).
NextCombination ==
    IF gIdx < Len(featureTypeList)
    THEN /\ gIdx' = gIdx + 1
         /\ fIdx' = fIdx
         /\ pc' = "combination"
    ELSE IF fIdx < Len(featureToExtractList)
    THEN /\ gIdx' = 1
         /\ fIdx' = fIdx + 1
         /\ pc' = "combination"
    ELSE /\ UNCHANGED <<fIdx, gIdx>>
         /\ pc' = "final"

\* Mutant: the loop over encList ends after one chart.
NextChartStops == cIdx' = cIdx /\ pc' = "assemble"

\* The end of one pass of the loop over encList.
NextChart ==
    IF cIdx < Len(encList)
    THEN cIdx' = cIdx + 1 /\ pc' = "chart"
    ELSE cIdx' = cIdx /\ pc' = "assemble"

\* Lines 258-296: geometry type dispatch, the output folders, the lists of
\* the combination.
StartCombination ==
    /\ pc = "combination"
    /\ IF GeomTypeOf(featureType) = "unhandled"
       THEN /\ pc' = "exited"
            /\ UNCHANGED <<cIdx, listVars, memLayersUsed, folders, out>>
       ELSE /\ pc' = IF Len(encList) = 0 THEN "assemble" ELSE "chart"
            /\ cIdx' = 1
            /\ out' = Append(out, Event("extracting", 0, 0, 0))
            /\ folders' = makedirs(makedirs(folders, outFolder), chartExtractFolder)
            /\ memLayersUsed' = FALSE
            /\ failS57SourceList' = <<>>
            /\ chartList' = <<>>
            /\ chartsNoFeatureList' = <<>>
            /\ chartsWithFeatureList' = <<>>
            /\ chartShapefileList' = <<>>
    /\ UNCHANGED <<inputVars, otherVars, fIdx, gIdx, jIdx, sIdx, aIdx, synced, exc, AttributesOfListType,
                   importFeatureCount, noneTypeGeometry, stagingVars, files>>

\* Lines 298-357: open the chart, look the layer up, count the features of
\* the requested geometry type, and decide whether the chart is converted.
OpenChart ==
    /\ pc = "chart"
    /\ AttributesOfListType' = <<>>
    /\ chartList' = Append(chartList, chartPath)
    /\ chartsWithFeatureList' =
         IF layer # NoLayer THEN Append(chartsWithFeatureList, chartPath)
         ELSE chartsWithFeatureList
    /\ importFeatureCount' =
         IF layer # NoLayer THEN CountMatching(layer, featureType)
         ELSE importFeatureCount
    /\ noneTypeGeometry' =
         noneTypeGeometry \o [n \in 1..NoneGeometries(layer) |-> featureToExtract]
    /\ IF layer = NoLayer \/ importFeatureCount' = 0
       THEN /\ chartsNoFeatureList' = Append(chartsNoFeatureList, chartPath)
            /\ NextChart
       ELSE /\ chartsNoFeatureList' = chartsNoFeatureList
            /\ cIdx' = cIdx
            /\ pc' = "metadata"
    /\ UNCHANGED <<inputVars, otherVars, fIdx, gIdx, jIdx, sIdx, aIdx, synced, exc, chartShapefileList,
                   failS57SourceList, memLayersUsed, stagingVars, fsVars, out>>

\* Line 360: getENCMetadata(data) of a chart that has a DSID layer.
GetENCMetadata ==
    /\ pc = "metadata"
    /\ GetLayerByName(data, "DSID") # NoLayer
    /\ ENCmetaDict' = getENCMetadata(data)
    /\ pc' = "staging"
    /\ UNCHANGED <<inputVars, otherVars, fIdx, gIdx, cIdx, jIdx, sIdx, aIdx, synced, exc, listVars,
                   AttributesOfListType, importFeatureCount, noneTypeGeometry,
                   memLayersUsed, memLayer, mem_feat, fsVars, out>>

\* Lines 59, 70: GetLayerByName('DSID') is None and `for feature in layer`
\* raises TypeError, which nothing catches.
GetENCMetadataRaises ==
    /\ pc = "metadata"
    /\ GetLayerByName(data, "DSID") = NoLayer
    /\ exc' = "TypeError"
    /\ pc' = "crashed"
    /\ UNCHANGED <<inputVars, otherVars, fIdx, gIdx, cIdx, jIdx, sIdx, aIdx, synced, listVars,
                   AttributesOfListType, importFeatureCount, noneTypeGeometry,
                   memLayersUsed, stagingVars, fsVars, out>>

\* Lines 363-485: the staging layer and its schema, then the feature object.
\* A chart file named 'test' is not converted (lines 481, 688-690).
BuildStagingLayer ==
    /\ pc = "staging"
    /\ memLayer' = StagingLayer(data.name, layer)
    /\ IF data.name # "test"
       THEN /\ mem_feat' = NewFeature(memLayer'.schema)
            /\ jIdx' = 1
            /\ cIdx' = cIdx
            /\ pc' = "transfer"
            /\ UNCHANGED failS57SourceList
       ELSE /\ failS57SourceList' = Append(failS57SourceList, data.name)
            /\ NextChart
            /\ UNCHANGED <<mem_feat, jIdx>>
    /\ UNCHANGED <<inputVars, otherVars, fIdx, gIdx, sIdx, aIdx, synced, exc, chartList, chartsNoFeatureList,
                   chartsWithFeatureList, chartShapefileList, AttributesOfListType,
                   importFeatureCount, noneTypeGeometry, memLayersUsed, ENCmetaDict,
                   fsVars, out>>

\* The end of one pass of the loop over the source features (also `continue`).
NextFeature ==
    IF jIdx < Len(layer.feats)
    THEN jIdx' = jIdx + 1 /\ pc' = "transfer"
    ELSE jIdx' = jIdx /\ pc' = "alter"

\* Lines 507-513: a source feature of another geometry type is passed over.
SkipFeature ==
    /\ pc = "transfer"
    /\ layer.feats[jIdx].geom # NoGeom
    /\ GeometryDiffers(layer.feats[jIdx], featureType)
    /\ NextFeature
    /\ UNCHANGED <<inputVars, otherVars, fIdx, gIdx, cIdx, sIdx, aIdx, synced, exc, listVars,
                   AttributesOfListType, importFeatureCount, noneTypeGeometry,
                   memLayersUsed, stagingVars, fsVars, out>>

\* Line 510: feature.geometry() is None and GetGeometryName raises
\* AttributeError, which nothing catches in the transfer pass.
TransferRaises ==
    /\ pc = "transfer"
    /\ layer.feats[jIdx].geom = NoGeom
    /\ exc' = "AttributeError"
    /\ pc' = "crashed"
    /\ UNCHANGED <<inputVars, otherVars, fIdx, gIdx, cIdx, jIdx, sIdx, aIdx, synced, listVars,
                   AttributesOfListType, importFeatureCount, noneTypeGeometry,
                   memLayersUsed, stagingVars, fsVars, out>>

\* Lines 514-607: geometry, field values and metadata of the current source
\* feature set on mem_feat, and the list fields met on the way.
Transferred ==
    LET feature == layer.feats[jIdx]
        st == TransferFields(layer, feature, memLayer.schema, 1,
                             [feat  |-> [mem_feat EXCEPT !.geom = feature.geom,
                                                        !.xy = feature.xy],
                              attrs |-> AttributesOfListType])
    IN  [feat  |-> TransferMeta(memLayer.schema, ENCmetaDict, 1, st.feat),
         attrs |-> st.attrs]

\* Lines 514-612: geometry, field values and metadata of one source feature
\* are set on mem_feat, which is then added to the staging layer.
TransferFeature ==
    /\ pc = "transfer"
    /\ layer.feats[jIdx].geom # NoGeom
    /\ ~GeometryDiffers(layer.feats[jIdx], featureType)
    /\ ~Rejects("transfer")
    /\ mem_feat' = Transferred.feat
    /\ AttributesOfListType' = Transferred.attrs
    /\ memLayer' = [memLayer EXCEPT !.feats = Append(@, Transferred.feat),
                                    !.calls = Append(@, "CreateFeature")]
    /\ NextFeature
    /\ UNCHANGED <<inputVars, otherVars, fIdx, gIdx, cIdx, sIdx, aIdx, synced, exc, listVars,
                   importFeatureCount, noneTypeGeometry, memLayersUsed, ENCmetaDict,
                   fsVars, out>>

\* Line 611 when the driver refuses the feature.  The script never calls
\* ogr.UseExceptions(): where the bindings return error codes the result of
\* CreateFeature is not looked at and the loop goes on without the feature,
\* where they raise, nothing catches the RuntimeError.
TransferRejected ==
    /\ pc = "transfer"
    /\ layer.feats[jIdx].geom # NoGeom
    /\ ~GeometryDiffers(layer.feats[jIdx], featureType)
    /\ Rejects("transfer")
    /\ mem_feat' = Transferred.feat
    /\ AttributesOfListType' = Transferred.attrs
    /\ \E raised \in BOOLEAN :
          IF raised
          THEN exc' = "RuntimeError" /\ pc' = "crashed" /\ jIdx' = jIdx
          ELSE exc' = exc /\ NextFeature
    /\ UNCHANGED <<inputVars, otherVars, fIdx, gIdx, cIdx, sIdx, aIdx, synced, listVars, importFeatureCount,
                   noneTypeGeometry, memLayersUsed, ENCmetaDict, memLayer, fsVars, out>>

\* Lines 622-627: AlterFieldDefn to String for every field met with a list
\* type during the transfer.
AlterListFields ==
    /\ pc = "alter"
    /\ memLayer' = AlterToString(memLayer, AttributesOfListType)
    /\ pc' = "write"
    /\ UNCHANGED <<inputVars, otherVars, fIdx, gIdx, cIdx, jIdx, sIdx, aIdx, synced, exc, listVars,
                   AttributesOfListType, importFeatureCount, noneTypeGeometry,
                   memLayersUsed, ENCmetaDict, mem_feat, fsVars, out>>

\* Lines 640-685: the shapefile of the chart, with the schema and the
\* features of the staging layer.
WriteShapefile ==
    /\ pc = "write"
    /\ outSHP \notin DOMAIN files
    /\ ~Rejects("write")
    /\ chartShapefileList' = Append(chartShapefileList, outSHP)
    /\ files' = (outSHP :> [schema   |-> memLayer.schema,
                            crs      |-> memLayer.crs,
                            geomType |-> GeomTypeOf(featureType),
                            feats    |-> CopyReusing(memLayer.schema, memLayer.feats,
                                                     NewFeature(memLayer.schema))])
                @@ files
    /\ memLayersUsed' = TRUE
    /\ AttributesOfListType' = <<>>
    /\ NextChart
    /\ UNCHANGED <<inputVars, otherVars, fIdx, gIdx, jIdx, sIdx, aIdx, synced, exc, chartList,
                   chartsNoFeatureList, chartsWithFeatureList, failS57SourceList,
                   importFeatureCount, noneTypeGeometry, stagingVars, folders, out>>

\* Lines 644-652 for a chart whose file name was already used by a chart of
\* another folder: outSHP exists, the shapefile driver does not create a data
\* source over an existing file, and shpDS.CreateLayer fails on None (or
\* CreateDataSource raises, where the bindings raise).
WriteCollides ==
    /\ pc = "write"
    /\ outSHP \in DOMAIN files
    /\ chartShapefileList' = Append(chartShapefileList, outSHP)
    /\ \E raised \in BOOLEAN : exc' = IF raised THEN "RuntimeError" ELSE "AttributeError"
    /\ pc' = "crashed"
    /\ UNCHANGED <<inputVars, otherVars, fIdx, gIdx, cIdx, jIdx, sIdx, aIdx, synced, chartList,
                   chartsNoFeatureList, chartsWithFeatureList, failS57SourceList,
                   AttributesOfListType, importFeatureCount, noneTypeGeometry,
                   memLayersUsed, stagingVars, fsVars, out>>

\* Lines 644-685 when the shapefile driver refuses the features (line 674):
\* the shapefile has its schema and no feature; the result of CreateFeature
\* is not looked at, or the RuntimeError is not caught.
WriteRejected ==
    /\ pc = "write"
    /\ outSHP \notin DOMAIN files
    /\ Rejects("write")
    /\ chartShapefileList' = Append(chartShapefileList, outSHP)
    /\ files' = (outSHP :> [schema   |-> memLayer.schema,
                            crs      |-> memLayer.crs,
                            geomType |-> GeomTypeOf(featureType),
                            feats    |-> <<>>])
                @@ files
    /\ \E raised \in BOOLEAN :
          IF raised
          THEN /\ exc' = "RuntimeError"
               /\ pc' = "crashed"
               /\ UNCHANGED <<cIdx, memLayersUsed, AttributesOfListType>>
          ELSE /\ exc' = exc
               /\ memLayersUsed' = TRUE
               /\ AttributesOfListType' = <<>>
               /\ NextChart
    /\ UNCHANGED <<inputVars, otherVars, fIdx, gIdx, jIdx, sIdx, aIdx, synced, chartList,
                   chartsNoFeatureList, chartsWithFeatureList, failS57SourceList,
                   importFeatureCount, noneTypeGeometry, stagingVars, folders, out>>

\* Lines 697-698: the loop over encList had nothing to go through.
NoChartsExit ==
    /\ pc = "assemble"
    /\ Len(chartList) = 0
    /\ pc' = "exited"
    /\ UNCHANGED <<inputVars, otherVars, fIdx, gIdx, cIdx, jIdx, sIdx, aIdx, synced, exc, listVars,
                   AttributesOfListType, importFeatureCount, noneTypeGeometry,
                   memLayersUsed, stagingVars, fsVars, out>>

\* Lines 697-702: no chart gave a shapefile: the folder of the combination is
\* deleted and the loop continues with the next combination.
EmptyCombination ==
    /\ pc = "assemble"
    /\ Len(chartList) # 0
    /\ Len(chartShapefileList) = 0
    /\ out' = Append(out, Event("deleting", 0, 0, 0))
    /\ folders' = rmtreeFolders(folders, outFolder)
    /\ files' = rmtreeFiles(files, outFolder)
    /\ NextCombination
    /\ UNCHANGED <<inputVars, otherVars, cIdx, jIdx, sIdx, aIdx, synced, exc, listVars, AttributesOfListType,
                   importFeatureCount, noneTypeGeometry, memLayersUsed, stagingVars>>

\* Lines 704-730: the composite shapefile, with the schema of the staging
\* layer created last and the fixed spatial reference.
CreateComposite ==
    /\ pc = "assemble"
    /\ Len(chartList) # 0
    /\ Len(chartShapefileList) # 0
    /\ files' = (globalShp :> [schema   |-> memLayer.schema,
                               crs      |-> CompositeCRS,
                               geomType |-> GeomTypeOf(featureType),
                               feats    |-> <<>>])
                @@ files
    /\ sIdx' = 1
    /\ aIdx' = 1
    /\ synced' = 0
    /\ pc' = "append"
    /\ UNCHANGED <<inputVars, otherVars, fIdx, gIdx, cIdx, jIdx, exc, listVars,
                   AttributesOfListType, importFeatureCount, noneTypeGeometry,
                   memLayersUsed, stagingVars, folders, out>>

\* The chart shapefile the composite is reading.
shpFile == chartShapefileList[sIdx]

\* The end of one pass of the loop over chartShapefileList.
NextShapefile ==
    IF sIdx < Len(chartShapefileList)
    THEN sIdx' = sIdx + 1 /\ pc' = "append"
    ELSE sIdx' = sIdx /\ pc' = "summary"

\* Lines 732-738: the next chart shapefile is opened; one without features
\* is passed over.
OpenShapefile ==
    /\ pc = "append"
    /\ aIdx' = 1
    /\ IF Len(files[shpFile].feats) = 0
       THEN NextShapefile
       ELSE sIdx' = sIdx /\ pc' = "feature"
    /\ UNCHANGED <<inputVars, otherVars, fIdx, gIdx, cIdx, jIdx, synced, exc, listVars,
                   AttributesOfListType, importFeatureCount, noneTypeGeometry,
                   memLayersUsed, stagingVars, fsVars, out>>

\* Lines 739-746: one feature of the chart shapefile is copied onto a new
\* feature object, values by field index, and added to the composite.
AppendFeature ==
    /\ pc = "feature"
    /\ files' = [files EXCEPT ![globalShp].feats =
                    @ \o CopyByIndex(files[globalShp].schema,
                                     <<files[shpFile].feats[aIdx]>>)]
    /\ pc' = "sync"
    /\ UNCHANGED <<inputVars, otherVars, fIdx, gIdx, cIdx, jIdx, sIdx, aIdx, synced, exc,
                   listVars, AttributesOfListType, importFeatureCount, noneTypeGeometry,
                   memLayersUsed, stagingVars, folders, out>>

\* Mutant: SyncToDisk writes nothing.
FlushedNever(before, lyr) == before

\* Layer.SyncToDisk(): every feature of the layer is on disk.
Flushed(before, lyr) == Len(lyr.feats)

\* Line 747: the composite is synced to disk, in the pass that added the
\* feature; then the next feature or the next chart shapefile.
SyncComposite ==
    /\ pc = "sync"
    /\ synced' = Flushed(synced, files[globalShp])
    /\ IF aIdx < Len(files[shpFile].feats)
       THEN aIdx' = aIdx + 1 /\ sIdx' = sIdx /\ pc' = "feature"
       ELSE aIdx' = aIdx /\ NextShapefile
    /\ UNCHANGED <<inputVars, otherVars, fIdx, gIdx, cIdx, jIdx, exc, listVars,
                   AttributesOfListType, importFeatureCount, noneTypeGeometry,
                   memLayersUsed, stagingVars, fsVars, out>>

\* Lines 749-765: the summary of the combination, printed and logged.
Summary ==
    /\ pc = "summary"
    /\ out' = Append(out, Event("summary",
                                Len(chartsWithFeatureList) + Len(chartsNoFeatureList),
                                Len(chartsWithFeatureList),
                                Len(chartsNoFeatureList)))
    /\ NextCombination
    /\ UNCHANGED <<inputVars, otherVars, cIdx, jIdx, sIdx, aIdx, synced, exc, listVars, AttributesOfListType,
                   importFeatureCount, noneTypeGeometry, memLayersUsed, stagingVars,
                   fsVars>>

\* Lines 767-774: the closing report.
Finish ==
    /\ pc = "final"
    /\ out' = Append(out, [kind |-> "completed", feature |-> "", type |-> "",
                           found |-> 0, with |-> 0, without |-> 0])
    /\ pc' = "done"
    /\ UNCHANGED <<inputVars, otherVars, fIdx, gIdx, cIdx, jIdx, sIdx, aIdx, synced, exc, listVars,
                   AttributesOfListType, importFeatureCount, noneTypeGeometry,
                   memLayersUsed, stagingVars, fsVars>>

Next ==
    \/ StartCombination
    \/ OpenChart
    \/ GetENCMetadata
    \/ GetENCMetadataRaises
    \/ BuildStagingLayer
    \/ SkipFeature
    \/ TransferRaises
    \/ TransferFeature
    \/ TransferRejected
    \/ AlterListFields
    \/ WriteShapefile
    \/ WriteCollides
    \/ WriteRejected
    \/ NoChartsExit
    \/ EmptyCombination
    \/ CreateComposite
    \/ OpenShapefile
    \/ AppendFeature
    \/ SyncComposite
    \/ Summary
    \/ Finish

Spec == Init /\ [][Next]_vars

(***************************************************************************)
(* Vocabulary of the properties.                                           *)
(***************************************************************************)
\* The staging layer of the current chart exists and is being loaded,
\* altered or written.
Staged == pc \in {"transfer", "alter", "write"}

\* The source features of a layer that have the requested geometry type.
MatchingFeatures(lyr, token) == SelectSeq(lyr.feats, LAMBDA f : f.geom = token)

IsChartFile(path) == Len(path) = 4

IsComposite(path) == Len(path) = 3

\* The chart a per-chart shapefile is named after.
ChartOfFile(path) ==
    encList[CHOOSE i \in 1..Len(encList) :
                /\ encList[i].name \o ".shp" = path[4]
                /\ \A j \in 1..(i - 1) : encList[j].name \o ".shp" # path[4]]

ValueOf(schema, feat, name) ==
    feat.vals[CHOOSE i \in 1..Len(schema) : schema[i].name = name]

HasField(schema, name) == \E i \in 1..Len(schema) : schema[i].name = name

TypeOf(schema, name) ==
    schema[CHOOSE i \in 1..Len(schema) : schema[i].name = name].type

(***************************************************************************)
(* C1: every feature of a per-chart shapefile and of a composite has       *)
(* exactly the geometry type of the combination the file belongs to.       *)
(***************************************************************************)
C1_GeometryFilter ==
    \A path \in DOMAIN files :
        \A n \in 1..Len(files[path].feats) : files[path].feats[n].geom = path[2]

\* A composite holds features although a chart's layer of that name also
\* has a feature of another geometry type.
C1_Witness ==
    \E path \in DOMAIN files :
        /\ IsComposite(path)
        /\ Len(files[path].feats) > 0
        /\ \E c \in Range(encList) : \E l \in Range(c.layers) :
              /\ l.name = path[1]
              /\ \E f \in Range(l.feats) : f.geom = path[2]
              /\ \E f \in Range(l.feats) : f.geom \notin {path[2], NoGeom}

(***************************************************************************)
(* C2: every source field declared IntegerList or StringList is a String   *)
(* field of the staging schema, from before the first feature is loaded    *)
(* and whatever values the field holds.                                    *)
(***************************************************************************)
C2_ListFieldsAreString ==
    Staged =>
        \A i \in 1..Len(layer.schema) :
            layer.schema[i].type \in ListTypes =>
                /\ HasField(memLayer.schema, layer.schema[i].name)
                /\ TypeOf(memLayer.schema, layer.schema[i].name) = "String"

\* The staging layer is about to be loaded and a list field of the source
\* holds no value in any feature that will be loaded.
C2_Witness ==
    /\ pc = "transfer"
    /\ Len(memLayer.feats) = 0
    /\ \E i \in 1..Len(layer.schema) :
          /\ layer.schema[i].type \in ListTypes
          /\ \A f \in Range(MatchingFeatures(layer, featureType)) : f.vals[i] = None

(***************************************************************************)
(* C3: a staged feature holds null for a null list value of its source     *)
(* feature, and for a list the text that splits at its commas into exactly *)
(* the elements of the list, in order.                                     *)
(***************************************************************************)
RECURSIVE SplitAtCommas(_, _, _)
SplitAtCommas(text, piece, pieces) ==
    IF Len(text) = 0 THEN Append(pieces, piece)
    ELSE IF text[1] = "," THEN SplitAtCommas(Tail(text), <<>>, Append(pieces, piece))
    ELSE SplitAtCommas(Tail(text), Append(piece, text[1]), pieces)

RECURSIVE DecimalValue(_)
DecimalValue(piece) ==
    IF Len(piece) = 0 THEN 0
    ELSE DigitVal(piece[1]) * (10 ^ (Len(piece) - 1)) + DecimalValue(Tail(piece))

IsDecimalOf(piece, n) ==
    /\ Len(piece) > 0
    /\ \A c \in Range(piece) : IsDigit(c)
    /\ Len(piece) > 1 => piece[1] # "0"
    /\ DecimalValue(piece) = n

IsTextOfList(staged, value) ==
    /\ staged.k = "str"
    /\ IF Len(value.v) = 0 THEN staged.v = <<>>
       ELSE LET pieces == SplitAtCommas(staged.v, <<>>, <<>>)
            IN  /\ Len(pieces) = Len(value.v)
                /\ \A i \in 1..Len(pieces) :
                      IF value.k = "slist" THEN pieces[i] = value.v[i]
                      ELSE IsDecimalOf(pieces[i], value.v[i])

C3_ListValuesAsText ==
    Staged =>
        \A n \in 1..Len(memLayer.feats) : \A i \in 1..Len(layer.schema) :
            layer.schema[i].type \in ListTypes =>
                LET value  == MatchingFeatures(layer, featureType)[n].vals[i]
                    staged == ValueOf(memLayer.schema, memLayer.feats[n], layer.schema[i].name)
                IN  IF value = None THEN staged = None ELSE IsTextOfList(staged, value)

\* A staged feature came from a list of two different elements, and a
\* staged feature came from a null list value.
C3_Witness ==
    /\ Staged
    /\ \E i \in 1..Len(layer.schema) :
          /\ layer.schema[i].type \in ListTypes
          /\ \E n \in 1..Len(memLayer.feats) :
                LET value == MatchingFeatures(layer, featureType)[n].vals[i]
                IN  value # None /\ Len(value.v) >= 2 /\ value.v[1] # value.v[2]
    /\ \E i \in 1..Len(layer.schema) :
          /\ layer.schema[i].type \in ListTypes
          /\ \E n \in 1..Len(memLayer.feats) :
                MatchingFeatures(layer, featureType)[n].vals[i] = None

(***************************************************************************)
(* C4: no field type alteration (AlterFieldDefn) is performed on a staging *)
(* layer after a feature has been added to it.                             *)
(***************************************************************************)
C4_NoAlterAfterLoad ==
    \A i, j \in 1..Len(memLayer.calls) :
        (i < j /\ memLayer.calls[i] = "CreateFeature") => memLayer.calls[j] # "AlterFieldDefn"

\* C4 as amended: every field of a staging layer has its final type before
\* the first feature is added, and no step changes the type of a field of a
\* staging layer that holds features: the AlterFieldDefn calls made after
\* loading ask for String on fields that are String already.
C4_NoTypeChangeAfterLoad ==
    [][(pc # "staging" /\ Len(memLayer.feats) > 0) => memLayer'.schema = memLayer.schema]_vars

\* A loaded staging layer has gone through the alterations that follow the
\* transfer, for a source layer with a list field.
C4_Witness ==
    /\ pc = "write"
    /\ Len(memLayer.feats) > 0
    /\ \E i, j \in 1..Len(memLayer.calls) :
          i < j /\ memLayer.calls[i] = "CreateFeature" /\ memLayer.calls[j] = "AlterFieldDefn"

(***************************************************************************)
(* C5: the staging schema is the same whenever it is built from the same   *)
(* source schema (the per-chart shapefiles of one chart and layer agree),  *)
(* it is the source schema with list fields and STATUS as String followed  *)
(* by the four metadata fields, and the second pass over it, after         *)
(* loading, changes no field type.                                         *)
(***************************************************************************)
ExpectedStagingSchema(source) ==
    [i \in 1..(Len(source) + 4) |->
        IF i <= Len(source)
        THEN [name |-> source[i].name,
              type |-> IF source[i].type \in ListTypes \/ source[i].name = "STATUS"
                       THEN "String" ELSE source[i].type]
        ELSE [name |-> <<"ENCSource", "ENCissDate", "ENCComment", "ENCScale">>[i - Len(source)],
              type |-> IF i - Len(source) = 4 THEN "Integer" ELSE "String"]]

C5_SameSchemaPerChart ==
    /\ \A p, q \in DOMAIN files :
          (IsChartFile(p) /\ IsChartFile(q) /\ p[1] = q[1] /\ p[4] = q[4])
              => files[p].schema = files[q].schema
    /\ Staged => memLayer.schema = ExpectedStagingSchema(layer.schema)

C5_NormalizerIdempotent ==
    /\ []C5_SameSchemaPerChart
    /\ [][pc = "alter" => memLayer'.schema = memLayer.schema]_vars

\* The layer of one chart has been staged for two geometry types, and its
\* schema has a list field and a STATUS field.
C5_Witness ==
    \E p, q \in DOMAIN files :
        /\ IsChartFile(p) /\ IsChartFile(q)
        /\ p # q /\ p[1] = q[1] /\ p[4] = q[4]
        /\ \E f \in Range(files[p].schema) : f.name = "STATUS"
        /\ \E l \in Range(ChartOfFile(p).layers) :
              l.name = p[1] /\ \E f \in Range(l.schema) : f.type \in ListTypes

(***************************************************************************)
(* C6: once every chart of a combination has been examined, each chart is  *)
(* in exactly one of the two lists: in chartsWithFeatureList if it has a   *)
(* feature of the requested geometry type, in chartsNoFeatureList if not.  *)
(***************************************************************************)
HasMatchingFeature(chart) ==
    \E l \in Range(chart.layers) :
        l.name = featureToExtract /\ \E f \in Range(l.feats) : f.geom = featureType

Occurrences(list, x) == Cardinality({i \in 1..Len(list) : list[i] = x})

C6_CountsPartitionCharts ==
    pc \in {"assemble", "append", "feature", "sync", "summary"} =>
        \A c \in Range(encList) :
            LET path == <<c.dir, c.name>>
            IN  IF HasMatchingFeature(c)
                THEN /\ Occurrences(chartsWithFeatureList, path) = 1
                     /\ Occurrences(chartsNoFeatureList, path) = 0
                ELSE /\ Occurrences(chartsWithFeatureList, path) = 0
                     /\ Occurrences(chartsNoFeatureList, path) = 1

(***************************************************************************)
(* C7: when the run is over, a combination that was discarded has no       *)
(* composite, and none of its folders (per-chart folder, geometry type     *)
(* folder, feature type folder) remains as an empty folder.                *)
(***************************************************************************)
IsEmptyFolder(d) ==
    /\ d \in folders
    /\ \A e \in folders : ~(IsPrefix(d, e) /\ e # d)
    /\ \A f \in DOMAIN files : ~IsPrefix(d, f)

C7_DiscardLeavesNothing ==
    pc = "done" =>
        \A n \in 1..Len(out) :
            out[n].kind = "deleting" =>
                LET folder == <<out[n].feature, out[n].type>>
                IN  /\ \A f \in DOMAIN files : ~IsPrefix(folder, f)
                    /\ ~IsEmptyFolder(<<out[n].feature>>)
                    /\ ~IsEmptyFolder(folder)
                    /\ \A d \in folders : IsPrefix(folder, d) => ~IsEmptyFolder(d)

(***************************************************************************)
(* C8: when the run is over, a summary has been printed and logged for     *)
(* every combination that was processed.                                   *)
(***************************************************************************)
C8_SummaryForEveryCombination ==
    pc = "done" =>
        \A n \in 1..Len(out) :
            out[n].kind = "extracting" =>
                \E m \in 1..Len(out) :
                    /\ out[m].kind = "summary"
                    /\ out[m].feature = out[n].feature
                    /\ out[m].type = out[n].type

(***************************************************************************)
(* C9: reading the identification of a chart never ends the run, and what  *)
(* the chart does not provide takes the default.                           *)
(***************************************************************************)
\* The value of a field of the identification record of a chart, or the
\* default where the chart has no such layer or field.
IdentificationValue(chart, field, default) ==
    IF \E l \in Range(chart.layers) : l.name = "DSID" /\ HasField(l.schema, field)
    THEN LET l == CHOOSE l \in Range(chart.layers) : l.name = "DSID"
         IN  ValueOf(l.schema, l.feats[1], field)
    ELSE default

IdentificationOf(chart) ==
    [name      |-> IdentificationValue(chart, "DSID_DSNM", PyStr(<<>>)),
     issueDate |-> IdentificationValue(chart, "DSID_ISDT", PyStr(<<>>)),
     scale     |-> IdentificationValue(chart, "DSPM_CSCL", PyInt(0)),
     comment   |-> IdentificationValue(chart, "DSID_COMT", PyStr(<<>>))]

C9_MetadataNeverAborts ==
    /\ exc # "TypeError"
    /\ pc \in {"staging", "transfer", "alter", "write"} => ENCmetaDict = IdentificationOf(data)

(***************************************************************************)
(* C10: every staged feature, and every feature of a per-chart shapefile,  *)
(* carries the name, issue date, comment and scale of the identification   *)
(* record of its own chart.                                                *)
(***************************************************************************)
CarriesIdentification(schema, feat, chart) ==
    /\ ValueOf(schema, feat, "ENCSource") = IdentificationOf(chart).name
    /\ ValueOf(schema, feat, "ENCissDate") = IdentificationOf(chart).issueDate
    /\ ValueOf(schema, feat, "ENCComment") = IdentificationOf(chart).comment
    /\ ValueOf(schema, feat, "ENCScale") = IdentificationOf(chart).scale

C10_EnrichmentFromOwnChart ==
    /\ Staged =>
          \A n \in 1..Len(memLayer.feats) :
              CarriesIdentification(memLayer.schema, memLayer.feats[n], data)
    /\ \A p \in DOMAIN files :
          IsChartFile(p) =>
              \A n \in 1..Len(files[p].feats) :
                  CarriesIdentification(files[p].schema, files[p].feats[n], ChartOfFile(p))

\* A chart is staged after another chart of the same combination whose
\* identification differs from its own in every one of the four values,
\* and its own record lacks some of the named fields.
C10_Witness ==
    /\ pc = "write"
    /\ Len(chartShapefileList) > 0
    /\ Len(memLayer.feats) > 0
    /\ LET prev == ChartOfFile(chartShapefileList[Len(chartShapefileList)])
       IN  /\ IdentificationOf(prev).name # IdentificationOf(data).name
           /\ IdentificationOf(prev).issueDate # IdentificationOf(data).issueDate
           /\ IdentificationOf(prev).comment # IdentificationOf(data).comment
           /\ IdentificationOf(prev).scale # IdentificationOf(data).scale
    /\ \E l \in Range(data.layers) : l.name = "DSID" /\ ~HasField(l.schema, "DSID_COMT")

(***************************************************************************)
(* C11: a chart whose features the driver refused, while they were         *)
(* transferred or written, is in the failed list once the chart has been   *)
(* gone through, none of its features is in a shapefile that is appended   *)
(* to the composite, and the refusal does not end the run.                 *)
(***************************************************************************)
\* The chart at position i of encList has been gone through in the current
\* combination.
Processed(i) ==
    \/ pc \in {"assemble", "append", "feature", "sync", "summary"}
    \/ pc \in {"chart", "metadata", "staging", "transfer", "alter", "write"} /\ i < cIdx

PerChartFile(chart) ==
    <<featureToExtract, featureType, "ENCsContaining" \o featureType, chart.name \o ".shp">>

C11_DriverFailureIsLocal ==
    /\ exc # "RuntimeError"
    /\ \A i \in 1..Len(encList) :
          (/\ encList[i].name = driverRejects.name
           /\ HasMatchingFeature(encList[i])
           /\ Processed(i))
          => /\ encList[i].name \in Range(failS57SourceList)
             /\ \A n \in 1..Len(chartShapefileList) :
                   chartShapefileList[n] = PerChartFile(encList[i])
                       => Len(files[chartShapefileList[n]].feats) = 0

(***************************************************************************)
(* C12: when featureTypeList holds a token the dispatch does not know, the *)
(* run ends there before any chart has been processed and before any       *)
(* folder or file of any combination has been written.                     *)
(***************************************************************************)
HasUnknownToken ==
    \E g \in 1..Len(featureTypeList) : GeomTypeOf(featureTypeList[g]) = "unhandled"

C12_UnknownTokenAbortsFirst ==
    HasUnknownToken =>
        /\ pc \in {"combination", "exited"}
        /\ chartList = <<>>
        /\ folders = {}
        /\ files = <<>>

(***************************************************************************)
(* C13: a run that found no chart does not end with the status of success, *)
(* and writes no composite.                                                *)
(***************************************************************************)
C13_NoChartsIsFatal ==
    Len(encList) = 0 =>
        /\ pc \in {"done", "exited", "crashed"} => ExitStatus # 0
        /\ \A p \in DOMAIN files : ~IsComposite(p)

(***************************************************************************)
(* C14: after a combination was discarded because no chart gave a          *)
(* shapefile, the run goes on with the combination that follows it in the  *)
(* configured lists, and ends only after the last one.                     *)
(***************************************************************************)
Combinations == Len(featureToExtractList) * Len(featureTypeList)

\* The k-th combination in the order of the two loops.
CombinationAt(k) ==
    <<featureToExtractList[((k - 1) \div Len(featureTypeList)) + 1],
      featureTypeList[((k - 1) % Len(featureTypeList)) + 1]>>

PositionOf(f, g) == CHOOSE k \in 1..Combinations : CombinationAt(k) = <<f, g>>

C14_EmptyCombinationContinues ==
    ~HasUnknownToken =>
        \A n \in 1..Len(out) :
            out[n].kind = "deleting" =>
                LET k == PositionOf(out[n].feature, out[n].type)
                IN  IF n < Len(out)
                    THEN \/ /\ k < Combinations
                            /\ out[n + 1].kind = "extracting"
                            /\ <<out[n + 1].feature, out[n + 1].type>> = CombinationAt(k + 1)
                         \/ /\ k = Combinations
                            /\ out[n + 1].kind = "completed"
                    ELSE \/ /\ k < Combinations
                            /\ pc = "combination"
                            /\ <<featureToExtract, featureType>> = CombinationAt(k + 1)
                         \/ /\ k = Combinations
                            /\ pc = "final"

\* A combination that comes after a discarded one has its per-chart
\* shapefile and its composite with features.
C14_Witness ==
    \E n \in 1..Len(out) :
        /\ out[n].kind = "deleting"
        /\ \E p, q \in DOMAIN files :
              /\ IsComposite(p) /\ IsChartFile(q)
              /\ p[1] = q[1] /\ p[2] = q[2]
              /\ Len(files[p].feats) > 0
              /\ PositionOf(p[1], p[2]) > PositionOf(out[n].feature, out[n].type)

(***************************************************************************)
(* C15: a source feature without geometry is passed over and logged: it    *)
(* never ends the run, whatever other features its layer holds.            *)
(***************************************************************************)
\* The run ended on the source feature it was transferring, which has no
\* geometry.
EndedOnNoGeometry ==
    /\ pc = "crashed"
    /\ exc = "AttributeError"
    /\ layer.feats[jIdx].geom = NoGeom

C15_NoGeometryIsLocal ==
    /\ ~EndedOnNoGeometry
    /\ (pc \in {"metadata", "staging", "transfer", "alter", "write"}
            /\ NoneGeometries(layer) > 0)
          => featureToExtract \in Range(noneTypeGeometry)

(***************************************************************************)
(* C16: once a combination is over, or the run is, a combination that has  *)
(* a per-chart shapefile has its composite, and the composite holds one    *)
(* feature for every feature of the requested geometry type of every chart *)
(* of encList, charts told apart by their full path: as many features, and *)
(* the same geometries.  (Runs in which a driver refuses features are left *)
(* to C11.)                                                                *)
(***************************************************************************)
GeometriesOf(feats) == [n \in 1..Len(feats) |-> <<feats[n].geom, feats[n].xy>>]

\* The geometries of the features of layer f and geometry type g, chart
\* after chart.
RECURSIVE MatchingGeometries(_, _, _)
MatchingGeometries(charts, f, g) ==
    IF Len(charts) = 0 THEN <<>>
    ELSE GeometriesOf(MatchingFeatures(GetLayerByName(charts[1], f), g))
         \o MatchingGeometries(Tail(charts), f, g)

HasPerChartOutput(f, g) ==
    \E p \in DOMAIN files : IsChartFile(p) /\ p[1] = f /\ p[2] = g

CompositeOf(f, g) == <<f, g, "global_" \o f \o "_" \o g \o ".shp">>

C16_CompositeHoldsEveryFeature ==
    (pc \in {"summary", "done", "crashed", "exited"} /\ driverRejects = NoRejection) =>
        \A f \in Range(featureToExtractList), g \in Range(featureTypeList) :
            HasPerChartOutput(f, g) =>
                /\ CompositeOf(f, g) \in DOMAIN files
                /\ GeometriesOf(files[CompositeOf(f, g)].feats)
                      = MatchingGeometries(encList, f, g)

(***************************************************************************)
(* C17: every composite declares EPSG:4326, whatever the per-chart         *)
(* shapefiles declare, and its features have, one for one, the geometry    *)
(* and the coordinates of the features of the per-chart shapefiles         *)
(* appended to it so far.                                                  *)
(***************************************************************************)
\* The geometries of the first k shapefiles of chartShapefileList.
RECURSIVE AppendedGeometries(_)
AppendedGeometries(k) ==
    IF k = 0 THEN <<>>
    ELSE AppendedGeometries(k - 1) \o GeometriesOf(files[chartShapefileList[k]].feats)

GoneThrough(i) == Processed(i) \/ (pc = "crashed" /\ i <= cIdx)

C18_PerChartOutputIffMatching ==
    driverRejects = NoRejection =>
        /\ \A i \in 1..Len(encList) :
              GoneThrough(i) =>
                  LET c == encList[i]
                      p == PerChartFile(c)
                  IN  /\ p \in DOMAIN files <=> HasMatchingFeature(c)
                      /\ p \in DOMAIN files =>
                            GeometriesOf(files[p].feats)
                              = GeometriesOf(MatchingFeatures(
                                    GetLayerByName(c, featureToExtract), featureType))
        /\ \A p \in DOMAIN files :
              IsChartFile(p) =>
                  /\ p[3] = "ENCsContaining" \o p[2]
                  /\ \E c \in Range(encList) : p[4] = c.name \o ".shp"

(***************************************************************************)
(* C19: the composite of a combination does not exist before the loop over *)
(* the charts of that combination has ended; it is created, empty, in one  *)
(* step taken when every chart of encList has been gone through and every  *)
(* per-chart shapefile of the combination exists; from then on it stays,   *)
(* its schema, spatial reference and geometry type never change, and its   *)
(* features only grow at the end.                                          *)
(***************************************************************************)
PathsOf(charts) == [i \in 1..Len(charts) |-> <<charts[i].dir, charts[i].name>>]

C19_NoCompositeBeforeAssembly ==
    pc \in {"combination", "chart", "metadata", "staging", "transfer", "alter",
            "write", "assemble"}
        => globalShp \notin DOMAIN files

C19_CreationAndAppend ==
    \A f \in Range(featureToExtractList), g \in Range(featureTypeList) :
        LET p == CompositeOf(f, g)
        IN  /\ (p \notin DOMAIN files /\ p \in DOMAIN files') =>
                  /\ pc = "assemble"
                  /\ p = globalShp
                  /\ chartList = PathsOf(encList)
                  /\ \A n \in 1..Len(chartShapefileList) :
                        chartShapefileList[n] \in DOMAIN files
                  /\ files'[p].feats = <<>>
            /\ p \in DOMAIN files =>
                  /\ p \in DOMAIN files'
                  /\ files'[p].schema = files[p].schema
                  /\ files'[p].crs = files[p].crs
                  /\ files'[p].geomType = files[p].geomType
                  /\ IsPrefix(files[p].feats, files'[p].feats)

C19_CompositeCreatedOnceThenAppended ==
    /\ []C19_NoCompositeBeforeAssembly
    /\ [][C19_CreationAndAppend]_vars

\* A composite has taken the features of two per-chart shapefiles, after a
\* list of charts one of which gave no shapefile.
C19_Witness ==
    /\ pc = "summary"
    /\ Len(chartShapefileList) >= 2
    /\ Len(chartList) > Len(chartShapefileList)
    /\ Len(files[globalShp].feats) >= 2

(***************************************************************************)
(* The result of one combination as a function of the list of charts: what *)
(* the steps StartCombination .. Summary leave behind when no step ends    *)
(* the run.                                                                *)
(***************************************************************************)
\* Lines 507-612 for the source features from position j on: st holds the
\* reused feature object, AttributesOfListType and the staging layer.
RECURSIVE LoadFeatures(_, _, _, _, _)
LoadFeatures(lyr, g, meta, j, st) ==
    IF j > Len(lyr.feats) THEN st
    ELSE IF GeometryDiffers(lyr.feats[j], g) THEN LoadFeatures(lyr, g, meta, j + 1, st)
    ELSE LET t == TransferFields(lyr, lyr.feats[j], st.ml.schema, 1,
                                 [feat  |-> [st.feat EXCEPT !.geom = lyr.feats[j].geom,
                                                            !.xy = lyr.feats[j].xy],
                                  attrs |-> st.attrs])
             done == TransferMeta(st.ml.schema, meta, 1, t.feat)
         IN  LoadFeatures(lyr, g, meta, j + 1,
                          [feat  |-> done,
                           attrs |-> t.attrs,
                           ml    |-> [st.ml EXCEPT !.feats = Append(@, done),
                                                   !.calls = Append(@, "CreateFeature")]])

\* Lines 360-677: the shapefile written for a chart that is converted.
ChartShapefile(chart, f, g) ==
    LET lyr    == GetLayerByName(chart, f)
        staged == StagingLayer(chart.name, lyr)
        loaded == LoadFeatures(lyr, g, getENCMetadata(chart), 1,
                               [feat  |-> NewFeature(staged.schema),
                                attrs |-> <<>>,
                                ml    |-> staged])
        ml     == AlterToString(loaded.ml, loaded.attrs)
    IN  [schema   |-> ml.schema,
         crs      |-> ml.crs,
         geomType |-> GeomTypeOf(g),
         feats    |-> CopyReusing(ml.schema, ml.feats, NewFeature(ml.schema))]

\* Lines 309-357: the charts that have the layer, and those that are converted.
HasLayer(chart, f) == GetLayerByName(chart, f) # NoLayer

IsConverted(chart, f, g) ==
    HasLayer(chart, f) /\ CountMatching(GetLayerByName(chart, f), g) # 0

\* Lines 704-747: the features of the composite of schema dst.
RECURSIVE CompositeFeatures(_, _)
CompositeFeatures(dst, shps) ==
    IF Len(shps) = 0 THEN <<>>
    ELSE CopyByIndex(dst, shps[1].feats) \o CompositeFeatures(dst, Tail(shps))

\* Per-chart shapefiles by file name, schema of the composite (that of the
\* staging layer made last, line 722), the features of the composite as a
\* set, and the two counts of the summary.
CombinationResult(charts, f, g) ==
    LET conv == SelectSeq(charts, LAMBDA c : IsConverted(c, f, g))
        shps == [n \in 1..Len(conv) |-> ChartShapefile(conv[n], f, g)]
        dst  == IF Len(conv) = 0 THEN <<>> ELSE shps[Len(conv)].schema
    IN  [perChart  |-> {<<conv[n].name, shps[n]>> : n \in 1..Len(conv)},
         schema    |-> dst,
         features  |-> Range(CompositeFeatures(dst, shps)),
         with      |-> Len(SelectSeq(charts, LAMBDA c : HasLayer(c, f))),
         without   |-> Len(SelectSeq(charts, LAMBDA c : ~IsConverted(c, f, g)))]

\* No chart of the list ends the run in this combination: every converted
\* chart has its DSID layer, no feature without geometry in the layer, and
\* a file name of its own.
RunsThrough(charts, f, g) ==
    /\ \A i \in 1..Len(charts) :
          IsConverted(charts[i], f, g) =>
              /\ HasLayer(charts[i], "DSID")
              /\ NoneGeometries(GetLayerByName(charts[i], f)) = 0
    /\ \A i, j \in 1..Len(charts) : i # j => charts[i].name # charts[j].name

\* The run agrees with CombinationResult when the summary is reached.
ResultOfRun ==
    (pc = "summary" /\ driverRejects = NoRejection) =>
        LET r == CombinationResult(encList, featureToExtract, featureType)
        IN  /\ r.perChart = {<<ChartOfFile(chartShapefileList[n]).name,
                                files[chartShapefileList[n]]>> :
                                   n \in 1..Len(chartShapefileList)}
            /\ r.schema = files[globalShp].schema
            /\ r.features = Range(files[globalShp].feats)
            /\ r.with = Len(chartsWithFeatureList)
            /\ r.without = Len(chartsNoFeatureList)

(***************************************************************************)
(* C20: the result of a combination is the same for every order of the     *)
(* same charts: the per-chart shapefiles, the schema of the composite, the *)
(* set of its features with their values, and the counts of the summary.   *)
(***************************************************************************)
Orders(charts) == InjSeqs(Range(charts), Len(charts), Len(charts))

C20_OrderIndependent ==
    (pc = "combination" /\ GeomTypeOf(featureType) # "unhandled"
        /\ RunsThrough(encList, featureToExtract, featureType)) =>
        \A other \in Orders(encList) :
            CombinationResult(other, featureToExtract, featureType)
                = CombinationResult(encList, featureToExtract, featureType)

(***************************************************************************)
(* aerialPhotographyWarp.py: the walk below the parent folder.  File names *)
(* are texts (sequences of characters), folders are sequences of folder    *)
(* names below the parent folder.                                          *)
(***************************************************************************)
\* The most source files one parent folder holds.
MaxTifs == 2

\* Python str.endswith.
endswith(s, suffix) ==
    /\ Len(s) >= Len(suffix)
    /\ SubSeq(s, Len(s) - Len(suffix) + 1, Len(s)) = suffix

\* Python `sub in s` for two strings: sub occurs in s as a substring.
PyIn(sub, s) ==
    \E i \in 1..(Len(s) - Len(sub) + 1) : SubSeq(s, i, i + Len(sub) - 1) = sub

\* Python s.split(".")[0]: the text before the first dot.
RECURSIVE FirstPiece(_)
FirstPiece(s) ==
    IF s = <<>> \/ Head(s) = "." THEN <<>> ELSE <<Head(s)>> \o FirstPiece(Tail(s))

tif == <<"t", "i", "f">>

DotTif == <<".">> \o tif

WarpTif == <<"_", "w", "a", "r", "p">> \o DotTif

\* Spatial references: the nodes GetAttrValue can find in the WKT.
ProjectedSrs == [geogcs |-> "GDA94", projcs |-> "MGA56"]

GeographicSrs == [geogcs |-> "GDA94", projcs |-> "NONE"]

NoSrs == [geogcs |-> "NONE", projcs |-> "NONE"]

\* What gdal.Open finds in a file; `origin` is the path a file of this run
\* was warped from.
Raster(srs) == [opens |-> TRUE, srs |-> srs, origin |-> <<>>]

NotARaster == [opens |-> FALSE, srs |-> NoSrs, origin |-> <<>>]

\* Line 93: the folder of the outputs, inside the parent folder.
warpOutFolder == <<"geoTiffWarp">>

\* Line 98 and 101: the copy of the script and the log file.
ScriptCopy == <<warpOutFolder, <<"w", ".", "p", "y">>>>

logfile == <<warpOutFolder, <<"w", ".", "l", "o", "g">>>>

\* The folders below the parent folder once line 96 has run.
WarpFolders == {<<>>, <<"sub">>, <<"old">>, warpOutFolder}

Subfolders(d) == {x \in WarpFolders : Len(x) = Len(d) + 1 /\ IsPrefix(d, x)}

\* The files a parent folder may hold before the run.
NameA == <<"a">> \o DotTif

SourcePaths ==
    { <<<<>>, NameA>>,
      <<<<"sub">>, NameA>>,
      <<<<"sub">>, <<"b", ".", "v", "2">> \o DotTif>>,
      <<<<>>, <<"m", "o">> \o tif>>,
      <<<<"old">>, <<"a">> \o WarpTif>> }

OtherPaths == { <<<<>>, <<"n", ".", "t", "x", "t">>>> }

SourceKinds == {Raster(ProjectedSrs), Raster(GeographicSrs), Raster(NoSrs), NotARaster}

WarpWorlds ==
    { s @@ o :
        s \in UNION { [S -> SourceKinds] :
                        S \in {T \in SUBSET SourcePaths : Cardinality(T) <= MaxTifs} },
        o \in UNION { [S -> {NotARaster}] : S \in SUBSET OtherPaths } }

\* Lines 67-77: the projection name rasterCharacteristics reports.  Line 71
\* tests the method object srs.IsProjected, which is always true, so the
\* name is always the one of the projcs node.
IsProjectedMethodIsTrue == TRUE

GetAttrValue(srs, node) == IF srs[node] = "NONE" THEN None ELSE PyStr(srs[node])

rasterCharacteristics(raster) ==
    [srs |-> raster.srs,
     prj |-> IF IsProjectedMethodIsTrue
             THEN GetAttrValue(raster.srs, "projcs")
             ELSE GetAttrValue(raster.srs, "geogcs")]

\* Line 148: the output file of a source path.
outputFile(filePath) == <<warpOutFolder, FirstPiece(filePath[2]) \o WarpTif>>

LogRecord(msg, arg) == [msg |-> msg, arg |-> arg]

\* Mutant: no file name is taken for an earlier output.
IsPreviousOutputNever(f) == FALSE

\* Line 128: the name holds '_warp.tif'.
IsPreviousOutput(f) == PyIn(WarpTif, f)

filePath(f) == <<walkRoot, f>>

\* The convertS57.py run is not running.
ConvertIdle ==
    /\ encList = <<>>
    /\ extractAlls57FeaturesInData = TRUE
    /\ featureToExtractList = <<>>
    /\ featureTypeList = featureTypeListAsShipped
    /\ driverRejects = NoRejection
    /\ fIdx = 1 /\ gIdx = 1 /\ cIdx = 1 /\ jIdx = 1 /\ sIdx = 1 /\ aIdx = 1
    /\ synced = 0
    /\ pc = "idle"
    /\ exc = "none"
    /\ chartList = <<>>
    /\ chartsNoFeatureList = <<>>
    /\ chartsWithFeatureList = <<>>
    /\ chartShapefileList = <<>>
    /\ failS57SourceList = <<>>
    /\ AttributesOfListType = <<>>
    /\ importFeatureCount = 0
    /\ noneTypeGeometry = <<>>
    /\ memLayersUsed = FALSE
    /\ ENCmetaDict = DefaultMeta
    /\ memLayer = NoMemLayer
    /\ mem_feat = NoFeature
    /\ folders = {}
    /\ files = <<>>
    /\ out = <<>>

\* Lines 83-86: the user has named an existing parent folder.
InitWarp ==
    /\ ConvertIdle
    /\ CatalogueIdle
    /\ tree \in WarpWorlds
    /\ walkTodo = <<>>
    /\ walkRoot = <<>>
    /\ walkFiles = {}
    /\ geotifList = <<>>
    /\ opened = <<>>
    /\ warpLog = <<>>
    /\ wpc = "start"

\* Lines 89-119: the output folder, the copy of the script, the log file.
CreateOutFolder ==
    /\ wpc = "start"
    /\ tree' = (ScriptCopy :> NotARaster) @@ (logfile :> NotARaster) @@ tree
    /\ walkTodo' = << <<>> >>
    /\ warpLog' = <<LogRecord("Script started", <<>>), LogRecord("Parent folder", <<>>)>>
    /\ wpc' = "walk"
    /\ UNCHANGED <<convertVars, catVars, walkRoot, walkFiles, geotifList, opened>>

\* Line 123: os.walk lists the next folder (top down, in the order the file
\* system gives the sub-folders) when the loop asks for it.
ListFolder ==
    /\ wpc = "walk"
    /\ walkTodo # <<>>
    /\ LET d == Head(walkTodo)
           n == Cardinality(Subfolders(d))
       IN  /\ \E order \in InjSeqs(Subfolders(d), n, n) :
                 walkTodo' = order \o Tail(walkTodo)
           /\ walkRoot' = d
           /\ walkFiles' = {x[2] : x \in {y \in DOMAIN tree : y[1] = d}}
    /\ wpc' = "files"
    /\ UNCHANGED <<convertVars, catVars, tree, geotifList, opened, warpLog>>

\* Line 126: a name that does not end with 'tif'.
SkipOtherFile ==
    /\ wpc = "files"
    /\ \E f \in walkFiles :
          /\ ~endswith(f, tif)
          /\ walkFiles' = walkFiles \ {f}
    /\ UNCHANGED <<convertVars, catVars, tree, walkTodo, walkRoot, geotifList, opened, warpLog, wpc>>

\* Lines 128-129: an output of this or of an earlier run.
SkipPreviousOutput ==
    /\ wpc = "files"
    /\ \E f \in walkFiles :
          /\ endswith(f, tif)
          /\ IsPreviousOutput(f)
          /\ walkFiles' = walkFiles \ {f}
    /\ UNCHANGED <<convertVars, catVars, tree, walkTodo, walkRoot, geotifList, opened, warpLog, wpc>>

\* Lines 132-134: gdal.Open returns None for a file it cannot read, and
\* rasterCharacteristics raises AttributeError on it (line 40).
OpenFails ==
    /\ wpc = "files"
    /\ \E f \in walkFiles :
          /\ endswith(f, tif)
          /\ ~IsPreviousOutput(f)
          /\ ~tree[filePath(f)].opens
          /\ opened' = Append(opened, filePath(f))
          /\ walkFiles' = walkFiles \ {f}
    /\ wpc' = "crashed"
    /\ UNCHANGED <<convertVars, catVars, tree, walkTodo, walkRoot, geotifList, warpLog>>

\* Lines 132-157: a raster with a projection name is warped to the output
\* folder, with its own spatial reference as the target.
Warp ==
    /\ wpc = "files"
    /\ \E f \in walkFiles :
          /\ endswith(f, tif)
          /\ ~IsPreviousOutput(f)
          /\ tree[filePath(f)].opens
          /\ rasterCharacteristics(tree[filePath(f)]).prj # None
          /\ opened' = Append(opened, filePath(f))
          /\ geotifList' = Append(geotifList, filePath(f))
          /\ tree' = (outputFile(filePath(f)) :>
                         [opens |-> TRUE, srs |-> tree[filePath(f)].srs,
                          origin |-> filePath(f)]) @@ tree
          /\ warpLog' = warpLog \o
                <<LogRecord("Tiff", filePath(f)),
                  LogRecord("Geotiff found", <<>>),
                  LogRecord("Projected to original CRS", outputFile(filePath(f)))>>
          /\ walkFiles' = walkFiles \ {f}
    /\ UNCHANGED <<convertVars, catVars, walkTodo, walkRoot, wpc>>

\* Lines 132-145, 159-161: a raster without a projection name.
NoProjection ==
    /\ wpc = "files"
    /\ \E f \in walkFiles :
          /\ endswith(f, tif)
          /\ ~IsPreviousOutput(f)
          /\ tree[filePath(f)].opens
          /\ rasterCharacteristics(tree[filePath(f)]).prj = None
          /\ opened' = Append(opened, filePath(f))
          /\ warpLog' = warpLog \o
                <<LogRecord("Tiff", filePath(f)), LogRecord("No projection", <<>>)>>
          /\ walkFiles' = walkFiles \ {f}
    /\ UNCHANGED <<convertVars, catVars, tree, walkTodo, walkRoot, geotifList, wpc>>

\* Line 124: the files of the folder are exhausted.
EndOfFolder ==
    /\ wpc = "files"
    /\ walkFiles = {}
    /\ wpc' = "walk"
    /\ UNCHANGED <<convertVars, catVars, tree, walkTodo, walkRoot, walkFiles, geotifList, opened,
                   warpLog>>

\* Lines 163-172: the walk is over, the report.
WarpReport ==
    /\ wpc = "walk"
    /\ walkTodo = <<>>
    /\ warpLog' = Append(warpLog, LogRecord("GeoTiff files found", <<>>))
    /\ wpc' = "done"
    /\ UNCHANGED <<convertVars, catVars, tree, walkTodo, walkRoot, walkFiles, geotifList, opened>>

NextWarp ==
    \/ CreateOutFolder
    \/ ListFolder
    \/ SkipOtherFile
    \/ SkipPreviousOutput
    \/ OpenFails
    \/ Warp
    \/ NoProjection
    \/ EndOfFolder
    \/ WarpReport

SpecWarp == InitWarp /\ [][NextWarp]_vars

\* The interpreter runs the script to its end: every step that can be taken
\* is taken.
SpecWarpRuns == SpecWarp /\ WF_vars(NextWarp)

(***************************************************************************)
(* Vocabulary of the claims about aerialPhotographyWarp.py.                *)
(***************************************************************************)
\* The .tif files the parent folder held before the run that are not
\* outputs of an earlier run.
SourceTifs ==
    {p \in DOMAIN tree :
        /\ tree[p].origin = <<>>
        /\ endswith(p[2], DotTif)
        /\ ~endswith(p[2], WarpTif)}

HasCrs(raster) == raster.srs.geogcs # "NONE"

Warped(p) == \E i \in 1..Len(geotifList) : geotifList[i] = p

LoggedNoProjection(p) ==
    \E i \in 1..(Len(warpLog) - 1) :
        /\ warpLog[i].msg = "Tiff"
        /\ warpLog[i].arg = p
        /\ warpLog[i + 1].msg = "No projection"

\* C21: at the end of a run every readable source .tif below the parent
\* folder has been warped exactly if it has a coordinate reference system,
\* geographic or projected, and one without is logged as having no projection
\* and is not warped.
C21_WarpedIffHasCrs ==
    wpc = "done" =>
        \A p \in SourceTifs :
            tree[p].opens =>
                /\ Warped(p) <=> HasCrs(tree[p])
                /\ ~HasCrs(tree[p]) => LoggedNoProjection(p) /\ ~Warped(p)

\* The files written by this run's gdal.Warp calls.
WrittenByRun == {p \in DOMAIN tree : tree[p].origin # <<>>}

NoOutputIsInput ==
    \A p \in WrittenByRun : ~Warped(p) /\ \A i \in 1..Len(opened) : opened[i] # p

WarpedAtMostOnce ==
    \A i, j \in 1..Len(geotifList) : geotifList[i] = geotifList[j] => i = j

\* C26: the output folder lies inside the walked parent folder, yet no file
\* written by the run is ever opened as an input or warped, no source is
\* warped twice, and the walk comes to an end.
C26_OutputsNeverInputs ==
    /\ [](NoOutputIsInput /\ WarpedAtMostOnce)
    /\ <>(wpc \in {"done", "crashed"})

\* The walk lists the output folder when it already holds an output.
C26_Witness ==
    /\ wpc = "files"
    /\ walkRoot = warpOutFolder
    /\ \E f \in walkFiles : filePath(f) \in WrittenByRun

(***************************************************************************)
(* imageSearchAndSpatialCatalogue.py.  Folder names and the names of the   *)
(* parent folders are texts; a folder is the sequence of the names from    *)
(* the parent folder down, a raster is named by its folder and its name.   *)
(***************************************************************************)
\* The most parent folders the user enters, sub-folders a parent folder
\* holds, and rasters a run finds.
MaxParents == 2

MaxFolders == 2

MaxRasters == 2

Snapshot == <<"~", "s", "n", "a", "p", "s", "h", "o", "t">>

DeaData == <<"D", "E", "A", "_", "D", "a", "t", "a">>

RecycleBin == <<"$", "R", "E", "C", "Y", "C", "L", "E", ".", "B", "I", "N">>

\* Other folder names: "Data", "img", "DATA", "lidar".
Data == <<"D", "a", "t", "a">>

Img == <<"i", "m", "g">>

DATA == <<"D", "A", "T", "A">>

Lidar == <<"l", "i", "d", "a", "r">>

\* Parent folders the user may name; the last one does not exist.
ParentP == <<"/", "p">>

ParentQ == <<"/", "q">>

ParentX == <<"/", "x">>

ExistingParents == {ParentP, ParentQ}

\* The sub-folders the first parent folder may hold.
FolderPool ==
    { <<ParentP, Snapshot>>, <<ParentP, DeaData>>, <<ParentP, RecycleBin>>,
      <<ParentP, Data>>, <<ParentP, Img>>, <<ParentP, DATA>>,
      <<ParentP, Img, Snapshot>>, <<ParentP, Snapshot, Img>>,
      <<ParentP, DATA, Lidar>> }

ParentOf(d) == SubSeq(d, 1, Len(d) - 1)

FolderSets ==
    {F \in SUBSET FolderPool :
        /\ Cardinality(F) <= MaxFolders
        /\ \A d \in F : Len(d) > 2 => ParentOf(d) \in F}

\* A raster on disk: its folder and name, the name of its spatial
\* reference, and what AddRastersToMosaicDataset does with it.
RasterFile(path, name, crs, adds) ==
    [path |-> path, name |-> name, crs |-> crs, adds |-> adds]

R1 == <<"r", "1">>

R2 == <<"r", "2">>

FullPath(r) == Append(r.path, r.name)

\* A row of the mosaic dataset; `by` is the raster whose addition made it.
Row(path, hash, dtype, by) == [path |-> path, hash |-> hash, dtype |-> dtype, by |-> by]

NewRow(by) == Row(None, None, None, by)

\* Lines 117-154: the digest is a function of the file.
hash(path) == PyStr(<<"sha256">> \o path)

\* Lines 99-100: the name that follows a folder DATA in the path.
RECURSIVE DataTypeOf(_)
DataTypeOf(path) ==
    IF Len(path) < 2 THEN None
    ELSE IF Head(path) = DATA THEN PyStr(path[2])
    ELSE DataTypeOf(Tail(path))

Disk(F, R, E, flaky) ==
    [folders |-> {<<q>> : q \in ExistingParents} \cup F, rasters |-> R,
     existing |-> E, flaky |-> flaky]

Answers(parents, cont, h) == [parents |-> parents, cont |-> cont, hash |-> h]

\* Worlds of the walk: one parent folder, any sub-folders, one raster in
\* every folder.
WalkWorlds ==
    { [disk |-> Disk(F, {RasterFile(d, R1, "GDA94", "row") : d \in F \cup {<<ParentP>>}},
                     <<>>, FALSE),
       answers |-> Answers(<<ParentP>>, "N", FALSE)] : F \in FolderSets }

\* Worlds of the prompts: what the user answers, over one small disk.
PromptDisk ==
    Disk({<<ParentP, Img>>},
         {RasterFile(<<ParentP>>, R1, "GDA94", "row"),
          RasterFile(<<ParentQ>>, R1, "GDA94", "row")},
         <<Row(PyStr(<<ParentP, R1>>), None, None, <<ParentP, R1>>)>>, FALSE)

PromptWorlds ==
    { [disk |-> PromptDisk, answers |-> Answers(ps, c, h)] :
        ps \in InjSeqs({ParentP, ParentQ, ParentX}, 0, MaxParents),
        c \in {"Y", "y", "N", "n"}, h \in BOOLEAN }

\* Worlds of the catalogue: the rasters of one parent folder.
RasterPool ==
    { RasterFile(<<ParentP>>, R1, "GDA94", "row"),
      RasterFile(<<ParentP>>, R1, "GDA94", "raises"),
      RasterFile(<<ParentP>>, R2, "GDA94", "row"),
      RasterFile(<<ParentP>>, R2, "GDA94", "nothing"),
      RasterFile(<<ParentP>>, R2, "Unknown", "row"),
      RasterFile(<<ParentP, DATA, Lidar>>, R1, "GDA94", "row") }

RasterSets ==
    {R \in SUBSET RasterPool :
        /\ Cardinality(R) <= MaxRasters
        /\ \A a, b \in R : FullPath(a) = FullPath(b) => a = b}

ExistingDatasets ==
    { <<>>, <<Row(PyStr(<<ParentP, R1>>), None, None, <<ParentP, R1>>)>> }

CatalogueWorlds ==
    { [disk |-> Disk({<<ParentP, DATA>>, <<ParentP, DATA, Lidar>>}, R, <<>>, TRUE),
       answers |-> Answers(<<ParentP>>, "N", h)] :
        R \in RasterSets, h \in BOOLEAN }
    \cup
    { [disk |-> Disk({}, R, E, TRUE), answers |-> Answers(<<ParentP>>, "Y", FALSE)] :
        R \in RasterSets, E \in ExistingDatasets }

ImageWorlds == WalkWorlds \cup PromptWorlds \cup CatalogueWorlds

Continues == continueProcess \in {"Y", "y"}

parentFolder == parentFolderList[pIdx]

\* os.path.exists for the name of a parent folder.
Exists(name) == <<name>> \in disk.folders

\* Lines 196-205: the module level values; the user will end the entry of
\* parent folders with an empty answer.
InitImages ==
    /\ ConvertIdle
    /\ WarpIdle
    /\ \E w \in ImageWorlds :
          /\ disk = w.disk
          /\ answers = [w.answers EXCEPT !.parents = Append(@, <<>>)]
    /\ parentFolderInput = <<"1">>
    /\ parentFolderList = <<>>
    /\ hashCalc = FALSE
    /\ continueProcess = ""
    /\ processedList = <<>>
    /\ pIdx = 1
    /\ processed = <<>>
    /\ rasterCatalog = <<>>
    /\ rootChecked = FALSE
    /\ catTodo = <<>>
    /\ calls = <<>>
    /\ rasters = <<>>
    /\ workspace = <<>>
    /\ searched = <<>>
    /\ cpc = "input"
    /\ exitMessage = ""

\* Lines 207-209: one pass of the first prompt; the answer is appended
\* before the loop tests it.
EnterParentFolder ==
    /\ cpc = "input"
    /\ parentFolderInput # <<>>
    /\ parentFolderInput' = Head(answers.parents)
    /\ parentFolderList' = Append(parentFolderList, Head(answers.parents))
    /\ answers' = [answers EXCEPT !.parents = Tail(@)]
    /\ UNCHANGED <<convertVars, warpVars, disk, hashCalc, continueProcess, processedList,
                   pIdx, processed, rasterCatalog, rootChecked, catTodo, calls, rasters,
                   workspace, searched, cpc, exitMessage>>

\* Lines 210-230: the other prompts, the test of line 219, the lists read
\* from an existing mosaic dataset.
AnswerPrompts ==
    /\ cpc = "input"
    /\ parentFolderInput = <<>>
    /\ hashCalc' = answers.hash
    /\ continueProcess' = answers.cont
    /\ IF Len(parentFolderInput) > 1 /\ answers.cont \in {"Y", "y"}
       THEN /\ cpc' = "exited"
            /\ exitMessage' = "Script can't process multiple parent folders and continue processing"
            /\ UNCHANGED <<rasterCatalog, processedList>>
       ELSE /\ cpc' = "parent"
            /\ exitMessage' = exitMessage
            /\ IF answers.cont \in {"Y", "y"}
               THEN /\ rasterCatalog' = disk.existing
                    /\ processedList' = [i \in 1..Len(disk.existing) |-> disk.existing[i].path]
               ELSE UNCHANGED <<rasterCatalog, processedList>>
    /\ UNCHANGED <<convertVars, warpVars, disk, answers, parentFolderInput,
                   parentFolderList, pIdx, processed, rootChecked, catTodo, calls, rasters,
                   workspace, searched>>

\* Lines 233-237: the next parent folder does not exist.
ParentFolderMissing ==
    /\ cpc = "parent"
    /\ pIdx <= Len(parentFolderList)
    /\ ~Exists(parentFolder)
    /\ cpc' = "exited"
    /\ exitMessage' = "Input path does not exist, exiting..."
    /\ UNCHANGED <<convertVars, warpVars, disk, answers, parentFolderInput,
                   parentFolderList, hashCalc, continueProcess, processedList, pIdx,
                   processed, rasterCatalog, rootChecked, catTodo, calls, rasters,
                   workspace, searched>>

\* Lines 233-281: the next parent folder exists: a new mosaic dataset unless
\* the run continues one, the dictionary, the flag, the start of the walk.
\* After the last parent folder the script ends.
StartParentFolder ==
    /\ cpc = "parent"
    /\ IF pIdx > Len(parentFolderList)
       THEN /\ cpc' = "done"
            /\ UNCHANGED <<processed, rasterCatalog, rootChecked, catTodo>>
       ELSE /\ Exists(parentFolder)
            /\ processed' = <<>>
            /\ rasterCatalog' = IF Continues THEN rasterCatalog ELSE <<>>
            /\ rootChecked' = FALSE
            /\ catTodo' = << <<parentFolder>> >>
            /\ cpc' = "walk"
    /\ UNCHANGED <<convertVars, warpVars, disk, answers, parentFolderInput,
                   parentFolderList, hashCalc, continueProcess, processedList, pIdx,
                   calls, rasters, workspace, searched, exitMessage>>

\* Lines 283-285: `d not in "~snapshot"` and the two tests that follow; the
\* right-hand side is a string, so each is a substring test.
Kept(d) == ~PyIn(d, Snapshot) /\ ~PyIn(d, DeaData) /\ ~PyIn(d, RecycleBin)

Last(d) == d[Len(d)]

\* The sub-folders of a folder on disk.
SubfoldersOnDisk(root) ==
    {d \in disk.folders : Len(d) = Len(root) + 1 /\ IsPrefix(root, d)}

\* arcpy.ListRasters() of a workspace.
ListRasters(path) == {r \in disk.rasters : r.path = path}

\* Lines 281-298: os.walk yields the next folder; the folders list is
\* pruned in place, so the walk descends only into what is kept; findRaster
\* is called on the root of the first pass and on every kept sub-folder.
ListCatFolder ==
    /\ cpc = "walk"
    /\ catTodo # <<>>
    /\ LET root == Head(catTodo)
           kept == {d \in SubfoldersOnDisk(root) : Kept(Last(d))}
           n    == Cardinality(kept)
       IN  \E order \in InjSeqs(kept, n, n) :
              /\ catTodo' = order \o Tail(catTodo)
              /\ calls' = (IF rootChecked THEN <<>> ELSE <<root>>) \o order
    /\ rootChecked' = TRUE
    /\ cpc' = "calls"
    /\ UNCHANGED <<convertVars, warpVars, disk, answers, parentFolderInput,
                   parentFolderList, hashCalc, continueProcess, processedList, pIdx,
                   processed, rasterCatalog, rasters, workspace, searched, exitMessage>>

\* Lines 24-35: findRaster is called on the next folder and lists its rasters.
CallFindRaster ==
    /\ cpc = "calls"
    /\ calls # <<>>
    /\ LET path == Head(calls)
           n    == Cardinality(ListRasters(path))
       IN  /\ workspace' = path
           /\ searched' = Append(searched, path)
           /\ \E order \in InjSeqs(ListRasters(path), n, n) : rasters' = order
           /\ cpc' = IF n = 0 THEN "calls" ELSE "raster"
    /\ calls' = Tail(calls)
    /\ UNCHANGED <<convertVars, warpVars, disk, answers, parentFolderInput,
                   parentFolderList, hashCalc, continueProcess, processedList, pIdx,
                   processed, rasterCatalog, rootChecked, catTodo, exitMessage>>

\* Lines 297-304: the calls of this pass of the walk are made.
EndOfCalls ==
    /\ cpc = "calls"
    /\ calls = <<>>
    /\ cpc' = "walk"
    /\ UNCHANGED <<convertVars, warpVars, disk, answers, parentFolderInput,
                   parentFolderList, hashCalc, continueProcess, processedList, pIdx,
                   processed, rasterCatalog, rootChecked, catTodo, calls, rasters,
                   workspace, searched, exitMessage>>

raster == Head(rasters)

\* Lines 37-47: a raster of the existing mosaic dataset or of the dictionary.
SkipRaster ==
    /\ cpc = "raster"
    /\ rasters # <<>>
    /\ \/ Continues /\ PyStr(FullPath(raster)) \in Range(processedList)
       \/ FullPath(raster) \in DOMAIN processed
    /\ rasters' = Tail(rasters)
    /\ UNCHANGED <<convertVars, warpVars, disk, answers, parentFolderInput,
                   parentFolderList, hashCalc, continueProcess, processedList, pIdx,
                   processed, rasterCatalog, rootChecked, catTodo, calls, workspace,
                   searched, cpc, exitMessage>>

Looked ==
    /\ cpc = "raster"
    /\ rasters # <<>>
    /\ ~(Continues /\ PyStr(FullPath(raster)) \in Range(processedList))
    /\ FullPath(raster) \notin DOMAIN processed

\* Lines 49-63: no usable spatial reference.
NoSpatialReference ==
    /\ Looked
    /\ raster.crs \in {"Unknown", "GCS_Undefined"}
    /\ rasters' = Tail(rasters)
    /\ UNCHANGED <<convertVars, warpVars, disk, answers, parentFolderInput,
                   parentFolderList, hashCalc, continueProcess, processedList, pIdx,
                   processed, rasterCatalog, rootChecked, catTodo, calls, workspace,
                   searched, cpc, exitMessage>>

\* Lines 78-85: AddRastersToMosaicDataset raises.
AddRasterFails ==
    /\ Looked
    /\ raster.crs \notin {"Unknown", "GCS_Undefined"}
    /\ raster.adds = "raises"
    /\ rasters' = Tail(rasters)
    /\ UNCHANGED <<convertVars, warpVars, disk, answers, parentFolderInput,
                   parentFolderList, hashCalc, continueProcess, processedList, pIdx,
                   processed, rasterCatalog, rootChecked, catTodo, calls, workspace,
                   searched, cpc, exitMessage>>

\* Lines 93-100: the values written into a row whose path is empty.
Stamp(row, path, full) ==
    [row EXCEPT !.path = PyStr(full),
                !.hash = IF hashCalc THEN hash(full) ELSE @,
                !.dtype = IF DataTypeOf(path) # None THEN DataTypeOf(path) ELSE @]

EmptyRows(rows) == {i \in 1..Len(rows) : rows[i].path = None}

\* Lines 88-112: the update cursor over every row of the mosaic dataset;
\* updateRow fails on the rows of `failing`, which stay as they were.
UpdateCursor(rows, path, full, failing) ==
    [i \in 1..Len(rows) |->
        IF i \in EmptyRows(rows) \ failing THEN Stamp(rows[i], path, full) ELSE rows[i]]

\* Lines 105 and 110: the entry of the dictionary after the cursor: the
\* outcome of the last row the cursor tried.
Outcome(rows, full, failing) ==
    IF EmptyRows(rows) = {} THEN processed
    ELSE LET last == CHOOSE i \in EmptyRows(rows) : \A j \in EmptyRows(rows) : j <= i
         IN  (full :> (IF last \in failing THEN "Failed" ELSE "Exists")) @@ processed

\* Lines 76-112: the raster is added (a new row, or nothing new) and the
\* update cursor runs over the mosaic dataset.
AddRaster ==
    /\ Looked
    /\ raster.crs \notin {"Unknown", "GCS_Undefined"}
    /\ raster.adds # "raises"
    /\ LET full  == FullPath(raster)
           added == IF raster.adds = "row"
                    THEN Append(rasterCatalog, NewRow(full)) ELSE rasterCatalog
       IN  \E failing \in SUBSET (IF disk.flaky THEN EmptyRows(added) ELSE {}) :
              /\ rasterCatalog' = UpdateCursor(added, workspace, full, failing)
              /\ processed' = Outcome(added, full, failing)
    /\ rasters' = Tail(rasters)
    /\ UNCHANGED <<convertVars, warpVars, disk, answers, parentFolderInput,
                   parentFolderList, hashCalc, continueProcess, processedList, pIdx,
                   rootChecked, catTodo, calls, workspace, searched, cpc, exitMessage>>

\* Line 36: the rasters of the folder are exhausted, findRaster returns.
ReturnFromFindRaster ==
    /\ cpc = "raster"
    /\ rasters = <<>>
    /\ cpc' = "calls"
    /\ UNCHANGED <<convertVars, warpVars, disk, answers, parentFolderInput,
                   parentFolderList, hashCalc, continueProcess, processedList, pIdx,
                   processed, rasterCatalog, rootChecked, catTodo, calls, rasters,
                   workspace, searched, exitMessage>>

\* Lines 310-315: the walk of the parent folder is over; the spatial index
\* is added to the mosaic dataset lines 243-263 created.
FinishParentFolder ==
    /\ cpc = "walk"
    /\ catTodo = <<>>
    /\ ~Continues
    /\ pIdx' = pIdx + 1
    /\ cpc' = "parent"
    /\ UNCHANGED <<convertVars, warpVars, disk, answers, parentFolderInput,
                   parentFolderList, hashCalc, continueProcess, processedList, processed,
                   rasterCatalog, rootChecked, catTodo, calls, rasters, workspace,
                   searched, exitMessage>>

\* Lines 310-314: in a run that continues a mosaic dataset fGDBName was
\* never assigned, and line 314 raises NameError.
FinishParentFolderRaises ==
    /\ cpc = "walk"
    /\ catTodo = <<>>
    /\ Continues
    /\ cpc' = "crashed"
    /\ UNCHANGED <<convertVars, warpVars, disk, answers, parentFolderInput,
                   parentFolderList, hashCalc, continueProcess, processedList, pIdx,
                   processed, rasterCatalog, rootChecked, catTodo, calls, rasters,
                   workspace, searched, exitMessage>>

NextImages ==
    \/ EnterParentFolder
    \/ AnswerPrompts
    \/ ParentFolderMissing
    \/ StartParentFolder
    \/ ListCatFolder
    \/ CallFindRaster
    \/ EndOfCalls
    \/ SkipRaster
    \/ NoSpatialReference
    \/ AddRasterFails
    \/ AddRaster
    \/ ReturnFromFindRaster
    \/ FinishParentFolder
    \/ FinishParentFolderRaises

SpecImages == InitImages /\ [][NextImages]_vars

(***************************************************************************)
(* Vocabulary of the claims about imageSearchAndSpatialCatalogue.py.       *)
(***************************************************************************)
\* The parent folders whose walk is over.
WalkedParents ==
    {parentFolderList[i] :
        i \in {j \in 1..Len(parentFolderList) :
                  j < pIdx \/ (j = pIdx /\ cpc = "crashed")}}

\* Lines 7-8: the names the header excludes.
ExcludedName(name) == name \in {Snapshot, DeaData, RecycleBin}

Searched(d) == \E i \in 1..Len(searched) : searched[i] = d

\* The folders below a parent folder that the walk of it reaches: those
\* directly in it and those in a folder that was searched.
Reached(parent) ==
    {d \in disk.folders :
        /\ Len(d) >= 2
        /\ d[1] = parent
        /\ Len(d) = 2 \/ Searched(ParentOf(d))}

\* C22: once the walk of a parent folder is over, a sub-folder the walk
\* reached was left out of the search exactly if its name is "~snapshot",
\* "DEA_Data" or "$RECYCLE.BIN"; every other one was searched for rasters.
C22_ExcludedIffNamed ==
    \A parent \in WalkedParents :
        \A d \in Reached(parent) : ~Searched(d) <=> ExcludedName(Last(d))

\* How often findRaster was called on a folder.
CallsOn(d) == Cardinality({i \in 1..Len(searched) : searched[i] = d})

\* The folders of a parent folder that no excluded name hides: the parent
\* folder and the descendants with no excluded name on the way down.
NonExcluded(parent) ==
    {d \in disk.folders :
        d[1] = parent /\ \A k \in 2..Len(d) : ~ExcludedName(d[k])}

\* C24: once the walk of a parent folder is over, findRaster was called
\* exactly once on the parent folder and on every descendant folder that is
\* not excluded, and on no folder twice.
C24_EachFolderSearchedOnce ==
    \A parent \in WalkedParents :
        /\ \A d \in NonExcluded(parent) : CallsOn(d) = 1
        /\ \A d \in disk.folders : CallsOn(d) <= 1

NonEmpty(name) == name # <<>>

\* The parent folders the user entered, without the empty answer that ends
\* the entry.
Entered == SelectSeq(parentFolderList, NonEmpty)

\* C25: once the prompts are answered, a run with more than one parent
\* folder that continues an existing mosaic dataset has reported that it
\* cannot do both and has exited, and no folder was searched.
C25_MultipleFoldersAndContinueExits ==
    (cpc # "input" /\ Len(Entered) > 1 /\ Continues) =>
        /\ cpc = "exited"
        /\ exitMessage = "Script can't process multiple parent folders and continue processing"
        /\ searched = <<>>

AllEnteredExist == \A i \in 1..Len(Entered) : Exists(Entered[i])

Ended == cpc \in {"done", "exited", "crashed"}

\* C29: when every parent folder the user entered exists, the list the main
\* loop goes through holds exactly the entered folders, the run never exits
\* with 'Input path does not exist, exiting...', and at its end every
\* entered folder has been searched.
C29_ExistingFoldersAllCatalogued ==
    (cpc # "input" /\ AllEnteredExist) =>
        /\ parentFolderList = Entered
        /\ exitMessage # "Input path does not exist, exiting..."
        /\ Ended => \A i \in 1..Len(Entered) : Searched(<<Entered[i]>>)

\* C30: every row of the mosaic dataset whose path is set holds the path of
\* the raster whose addition made the row, and a hash and a data type it
\* holds are those of that raster: no row is stamped with the values of a
\* different, later raster.
C30_RowsHoldTheirOwnRaster ==
    \A i \in 1..Len(rasterCatalog) :
        LET row == rasterCatalog[i]
        IN  row.path # None =>
                /\ row.path = PyStr(row.by)
                /\ row.hash # None => row.hash = hash(row.by)
                /\ row.dtype # None => row.dtype = DataTypeOf(ParentOf(row.by))

(***************************************************************************)
(* convertS57.py: the feature objects that are reused.                     *)
(***************************************************************************)
\* What lines 514-607 give for one source feature on a feature object of
\* its own: nothing of another feature can be in it.
StagedAlone(lyr, feature, memSchema, meta) ==
    TransferMeta(memSchema, meta, 1,
        TransferFields(lyr, feature, memSchema, 1,
            [feat  |-> [NewFeature(memSchema) EXCEPT !.geom = feature.geom,
                                                     !.xy = feature.xy],
             attrs |-> <<>>]).feat)

\* C28: the k-th feature of the staging layer, and of every chart shapefile,
\* is what the k-th matching source feature and the enrichment record of the
\* chart give on a feature object of their own: the reused feature objects
\* carry nothing from an earlier feature into a later one.
C28_NoCarryOver ==
    /\ (pc \in {"transfer", "alter"} /\ ~Rejects("transfer")) =>
          \A n \in 1..Len(memLayer.feats) :
              memLayer.feats[n] =
                  StagedAlone(layer, MatchingFeatures(layer, featureType)[n],
                              memLayer.schema, ENCmetaDict)
    /\ \A p \in DOMAIN files :
          IsChartFile(p) =>
              LET chart == ChartOfFile(p)
                  lyr   == GetLayerByName(chart, p[1])
              IN  \A n \in 1..Len(files[p].feats) :
                     files[p].feats[n] =
                         CopyByIndex(files[p].schema,
                             <<StagedAlone(lyr, MatchingFeatures(lyr, p[2])[n],
                                           StagingLayer(chart.name, lyr).schema,
                                           getENCMetadata(chart))>>)[1]

\* A chart shapefile whose second feature has a null where the first has a
\* value.
C28_Witness ==
    \E p \in DOMAIN files :
        /\ IsChartFile(p)
        /\ Len(files[p].feats) >= 2
        /\ \E i \in 1..Len(files[p].schema) :
              files[p].feats[1].vals[i] # None /\ files[p].feats[2].vals[i] = None

(***************************************************************************)
(* convertS57.py: the composite on disk.                                   *)
(***************************************************************************)
\* The composite of the current combination is being filled or is complete.
Assembling == pc \in {"append", "feature", "sync", "summary"}

Unflushed == Len(files[globalShp].feats) - synced

\* A step that adds a feature to the composite of the current combination.
AppendsToComposite ==
    /\ Assembling
    /\ Len(files'[globalShp].feats) > Len(files[globalShp].feats)

\* C23: while the composite is assembled at most one of its features, the
\* one just added, is not yet synced to disk; a feature is only added when
\* every feature added before is synced, and between the passes of the loops
\* nothing is unsynced.
C23_SyncedAfterEachAppend ==
    /\ [](Assembling =>
            /\ Unflushed \in {0, 1}
            /\ pc # "sync" => Unflushed = 0)
    /\ [][AppendsToComposite => Unflushed = 0]_vars

\* The second feature of a composite has been added and is not yet synced.
C23_Witness ==
    /\ pc = "sync"
    /\ Len(files[globalShp].feats) >= 2
    /\ Unflushed = 1

\* The features of the first k chart shapefiles of the combination, each
\* with the schema of its shapefile, in the order they are appended.
RECURSIVE SourceFeatures(_)
SourceFeatures(k) ==
    IF k = 0 THEN <<>>
    ELSE LET shp == files[chartShapefileList[k]]
         IN  SourceFeatures(k - 1) \o
                [j \in 1..Len(shp.feats) |-> [schema |-> shp.schema, feat |-> shp.feats[j]]]

\* The composite feature has, under every field name of the chart shapefile
\* feature, the value of that feature.
SameValuesByName(schema, feat, source) ==
    \A i \in 1..Len(source.schema) :
        /\ HasField(schema, source.schema[i].name)
        /\ ValueOf(schema, feat, source.schema[i].name) = source.feat.vals[i]

\* C27: every feature of the composite carries, under every field name, the
\* value of the chart shapefile feature it was copied from, whatever the
\* schemas of the chart shapefiles of the combination are.
C27_CompositeValuesByName ==
    Assembling =>
        \A n \in 1..Len(files[globalShp].feats) :
            SameValuesByName(files[globalShp].schema, files[globalShp].feats[n],
                             SourceFeatures(Len(chartShapefileList))[n])

====
